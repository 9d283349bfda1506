------------------------------ MODULE Blending ------------------------------
(***************************************************************************)
(* What becomes of the outputs of a fragment shader: blendTexel and the    *)
(* end of processFragment (lib/talvos/PipelineExecutor.cpp).  Texels are   *)
(* those of Texel; a product of two fixed-point numbers is rounded down.   *)
(***************************************************************************)
EXTENDS Texel

BlendFactors ==
  {"ZERO", "ONE", "SRC_COLOR", "ONE_MINUS_SRC_COLOR", "DST_COLOR", "ONE_MINUS_DST_COLOR",
   "SRC_ALPHA", "ONE_MINUS_SRC_ALPHA", "DST_ALPHA", "ONE_MINUS_DST_ALPHA", "CONSTANT_COLOR",
   "ONE_MINUS_CONSTANT_COLOR", "CONSTANT_ALPHA", "ONE_MINUS_CONSTANT_ALPHA",
   "SRC_ALPHA_SATURATE"}
BlendOps == {"ADD", "SUBTRACT", "REVERSE_SUBTRACT", "MIN", "MAX"}

Times(a, b) == (a * b) \div Unit

\* GetColorBlendFactor, for component k; constant is the blend constant.
BlendFactor(factor, src, dst, constant, k) ==
  CASE factor = "ZERO" -> 0
    [] factor = "ONE" -> Unit
    [] factor = "SRC_COLOR" -> src[k]
    [] factor = "ONE_MINUS_SRC_COLOR" -> Unit - src[k]
    [] factor = "DST_COLOR" -> dst[k]
    [] factor = "ONE_MINUS_DST_COLOR" -> Unit - dst[k]
    [] factor = "SRC_ALPHA" -> src[4]
    [] factor = "ONE_MINUS_SRC_ALPHA" -> Unit - src[4]
    [] factor = "DST_ALPHA" -> dst[4]
    [] factor = "ONE_MINUS_DST_ALPHA" -> Unit - dst[4]
    [] factor = "CONSTANT_COLOR" -> constant[k]
    [] factor = "ONE_MINUS_CONSTANT_COLOR" -> Unit - constant[k]
    [] factor = "CONSTANT_ALPHA" -> constant[4]
    [] factor = "ONE_MINUS_CONSTANT_ALPHA" -> Unit - constant[4]
    [] factor = "SRC_ALPHA_SATURATE" -> Min({src[4], Unit - dst[4]})

\* GetAlphaBlendFactor: colour factors are taken at alpha, saturation is one.
AlphaFactor(factor, src, dst, constant) ==
  IF factor = "SRC_ALPHA_SATURATE" THEN Unit
  ELSE BlendFactor(factor, src, dst, constant, 4)

\* Fault: the two subtractions are mixed up.
BlendOpSwapped(op, s, sf, d, df) ==
  CASE op = "ADD" -> Times(s, sf) + Times(d, df)
    [] op = "SUBTRACT" -> Times(d, df) - Times(s, sf)
    [] op = "REVERSE_SUBTRACT" -> Times(s, sf) - Times(d, df)
    [] op = "MIN" -> Min({s, d})
    [] op = "MAX" -> Max({s, d})

\* One component of one operator: MIN and MAX leave the factors out.
BlendOp(op, s, sf, d, df) ==
  CASE op = "ADD" -> Times(s, sf) + Times(d, df)
    [] op = "SUBTRACT" -> Times(s, sf) - Times(d, df)
    [] op = "REVERSE_SUBTRACT" -> Times(d, df) - Times(s, sf)
    [] op = "MIN" -> Min({s, d})
    [] op = "MAX" -> Max({s, d})

BlendTexel(src, dst, blend) ==
  [k \in 1..4 |->
     IF k < 4
     THEN BlendOp(blend.colorOp,
                  src[k], BlendFactor(blend.srcColor, src, dst, blend.constant, k),
                  dst[k], BlendFactor(blend.dstColor, src, dst, blend.constant, k))
     ELSE BlendOp(blend.alphaOp,
                  src[4], AlphaFactor(blend.srcAlpha, src, dst, blend.constant),
                  dst[4], AlphaFactor(blend.dstAlpha, src, dst, blend.constant))]

\* The texel that the output variables of one location make up, each from its
\* component on; what none of them sets is what the memory held before.
Gathered(outputs, stale) ==
  LET after[n \in 0..Len(outputs)] ==
        IF n = 0 THEN stale
        ELSE LET o == outputs[n] IN
             [k \in 1..4 |-> IF k - o.component \in 1..Len(o.values)
                             THEN o.values[k - o.component] ELSE after[n - 1][k]]
  IN after[Len(outputs)]

\* The bytes an attachment of format f holds after a fragment, from the bytes
\* it held.  Components that the mask leaves out keep the old value.
FragmentBytes(f, bytes, c) ==
  LET read == Read(f, bytes)
      old == IF HasAlphaChannel(f) THEN read ELSE [read EXCEPT ![4] = Unit]
      new == Gathered(c.outputs, c.stale)
      blended == IF c.blend.enable THEN BlendTexel(new, old, c.blend) ELSE new
  IN Write(f, [k \in 1..4 |-> IF k \in c.mask THEN blended[k] ELSE old[k]])
=============================================================================
