---------------------------- MODULE ImageLimits -----------------------------
(***************************************************************************)
(* What is refused before, while and after an image is decoded, and how    *)
(* large its thumbnail is: image_ops.rs of crates/gashuu-core/src.  The    *)
(* decoders are the image crate's.  An image file is [format, header, width, *)
(* height, depth, data]: depth is bytes per pixel, format is "unknown" when  *)
(* its first bytes name none, header and data say that they can be read.   *)
(* Widths are below 2^32 and their products below 2^64, so no              *)
(* multiplication here wraps.                                              *)
(***************************************************************************)
EXTENDS Integers

\* The limits in force: [max_pixels, max_side, max_alloc].
check_pixel_limit(width, height, limits) == width * height <= limits.max_pixels

\* The Limits of the reader, checked by the decoder as it learns the size.
WithinReaderLimits(image, limits) ==
  /\ image.width <= limits.max_side /\ image.height <= limits.max_side
  /\ image.width * image.height * image.depth <= limits.max_alloc

\* The size is checked from the header, except for AVIF, whose size is known only
\* when it is decoded; and again afterwards.
decode_dynamic(image, limits) ==
  LET small == check_pixel_limit(image.width, image.height, limits)
      first == image.format # "avif"
  IN  IF image.format = "unknown" \/ (first /\ ~image.header) THEN "Image"
      ELSE IF first /\ ~small THEN "ImageTooLarge"
      ELSE IF ~image.data \/ ~image.header \/ ~WithinReaderLimits(image, limits) THEN "Image"
      ELSE IF ~small THEN "ImageTooLarge"
      ELSE "decoded"

\* DecodedImage::new: four bytes for every pixel, saturating at usize::MAX.
Saturated(n, usize_max) == IF n > usize_max THEN usize_max ELSE n
new(len, width, height, usize_max) ==
  IF len = Saturated(4 * Saturated(width * height, usize_max), usize_max)
    THEN [kind |-> "DecodedImage", rgba |-> len, width |-> width, height |-> height]
    ELSE [kind |-> "MalformedImage", actual |-> len]

\* Rounded to the nearest, a half upwards.
Rounded(num, den) == (2 * num + den) \div (2 * den)
Side(n) == IF n < 1 THEN 1 ELSE n

\* DynamicImage::thumbnail: the longer edge becomes max_side, the shape is kept.
thumbnail(width, height, max_side) ==
  LET longer == IF width >= height THEN width ELSE height
  IN  [width |-> Side(Rounded(width * max_side, longer)),
       height |-> Side(Rounded(height * max_side, longer))]

\* The size of the thumbnail: an image that fits already is kept as it is.
decode_thumbnail(image, max_side, limits) ==
  IF decode_dynamic(image, limits) # "decoded" THEN decode_dynamic(image, limits)
  ELSE IF image.width > max_side \/ image.height > max_side
    THEN thumbnail(image.width, image.height, max_side)
  ELSE [width |-> image.width, height |-> image.height]
=============================================================================
