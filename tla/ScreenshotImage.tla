--------------------------- MODULE ScreenshotImage ---------------------------
(***************************************************************************)
(* From the parameters of a screenshot to the tool's answer: what the      *)
(* extension makes of the image (extension/src/background/                 *)
(* image-processor.ts) and what the MCP server accepts                     *)
(* (mcp-server/src/server.ts).  The image itself is left out, and so is    *)
(* the rounding of floating point numbers before Math.round.               *)
(***************************************************************************)
EXTENDS Integers

CONSTANT Undefined   \* a value that is not there

Given(value, default) == IF value = Undefined THEN default ELSE value

\* normalizeScreenshotOptions: what it accepts, and what it returns.
Normalizes(raw) ==
  /\ Given(raw.format, "jpeg") \in {"jpeg", "png"}
  /\ Given(raw.quality, 80) \in 1..100
  /\ Given(raw.maxWidth, 1) >= 1 /\ Given(raw.maxHeight, 1) >= 1

normalizeScreenshotOptions(raw) ==
  [raw EXCEPT !.format = Given(@, "jpeg"), !.quality = Given(@, 80)]

\* n * scale, for a scale that is a fraction.
\* Bug: no Math.max, so an image much longer than wide may lose its last column.
MaybeNothing(n, scale) == (2 * n * scale[1] + scale[2]) \div (2 * scale[2])
Scaled(n, scale) ==
  LET rounded == (2 * n * scale[1] + scale[2]) \div (2 * scale[2])
  IN IF rounded < 1 THEN 1 ELSE rounded

calculateOutputSize(width, height, limits) ==
  LET scales == {<<1, 1>>, <<Given(limits.maxWidth, width), width>>,
                 <<Given(limits.maxHeight, height), height>>}
      scale == CHOOSE s \in scales : \A r \in scales : s[1] * r[2] <= r[1] * s[2]
  IN IF scale[1] = scale[2]
     THEN [width |-> width, height |-> height, resized |-> FALSE]
     ELSE [width |-> Scaled(width, scale), height |-> Scaled(height, scale), resized |-> TRUE]

\* processScreenshot for an image of that size, when no stage of it fails.
processScreenshot(width, height, options) ==
  LET untouched == options.maxWidth = Undefined /\ options.maxHeight = Undefined
      size == calculateOutputSize(width, height, options)
      Sized(n) == IF untouched THEN Undefined ELSE n
  IN [format |-> options.format,
      mimeType |-> IF options.format = "png" THEN "image/png" ELSE "image/jpeg",
      quality |-> IF options.format = "jpeg" THEN options.quality ELSE Undefined,
      width |-> Sized(size.width), height |-> Sized(size.height),
      originalWidth |-> Sized(width), originalHeight |-> Sized(height),
      resized |-> ~untouched /\ size.resized]

\* screenshotContent: the results that do not make it throw.
screenshotContent(value) ==
  /\ value.format \in {"jpeg", "png"}
  /\ value.mimeType = IF value.format = "png" THEN "image/png" ELSE "image/jpeg"
  /\ Given(value.quality, 1) \in 1..100
  /\ value.format = "png" => value.quality = Undefined
  /\ \A n \in {value.width, value.height, value.originalWidth, value.originalHeight} :
       Given(n, 1) >= 1

\* The image fits within the limits that were given.
Fits(value, options) ==
  /\ options.maxWidth # Undefined => value.width <= options.maxWidth
  /\ options.maxHeight # Undefined => value.height <= options.maxHeight
=============================================================================
