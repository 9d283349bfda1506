------------------------------ MODULE MCRecording ------------------------------
(* Small instances of Recording for TLC: one primary and one secondary buffer. *)
EXTENDS Recording, TLC

CONSTANTS primary, secondary

Op(op) == <<[op |-> op]>>
B(kind, first, values) ==
  <<[op |-> "bind", kind |-> kind, first |-> first, values |-> values]>>
On(subpasses, clear) ==
  <<[op |-> "beginRenderPass", pass |-> [subpasses |-> subpasses, clear |-> clear]]>>

\* Two subpasses that share an image; one image is loaded and not cleared.
TwoSubpasses == On(<<{"x", "y"}, {"x", "z"}>>, {"x", "z"})
Loading      == On(<<{"x", "z"}>>, {"z"})
G == B("graphicsPL", 0, <<"g">>)

\* What may come before, in the first and in the second subpass of a render pass.
Before(k) == CASE k = 0 -> G
               [] k = 1 -> B("computePL", 0, <<"c">>) \o Op("dispatch") \o G
               [] k = 2 -> B("graphicsDSM", 0, <<"d0", "d1">>) \o G \o B("vertex", 0, <<"v">>)
First(k)  == CASE k = 0 -> Op("executeCommands")
               [] k = 1 -> B("graphicsDSM", 1, <<"e1">>) \o Op("draw")
               [] k = 2 -> Op("executeCommands") \o B("push", 0, <<"k">>) \o Op("draw")
Second(k) == CASE k = 0 -> Op("draw")
               [] k = 1 -> B("index", 0, <<"i">>) \o Op("drawIndexed")
               [] k = 2 -> Op("clearAttachments")
\* Every pair of a beginning and a first subpass.
Main == {Op("begin") \o Before(b) \o TwoSubpasses \o First(f)
           \o Op("nextSubpass") \o Second((b + f) % 3) \o Op("endRenderPass")
           : b, f \in 0..2}
Short == {Op("begin") \o G \o Loading \o Op("draw") \o Op("endRenderPass"),
          Op("begin") \o Op("executeCommands") \o B("computePL", 0, <<"c">>) \o Op("dispatch")}

Continued == {Op("continue") \o G \o Op("draw"),
              Op("continue") \o B("vertex", 0, <<"w">>) \o B("index", 0, <<"j">>) \o G
                 \o Op("drawIndexed"),
              Op("continue") \o Op("clearAttachments")}
Separate  == {Op("begin") \o B("computePL", 0, <<"c">>) \o B("push", 0, <<"l">>)
                 \o Op("dispatch")}

AllScripts == (primary :> (Main \cup Short)) @@ (secondary :> (Continued \cup Separate))
================================================================================
