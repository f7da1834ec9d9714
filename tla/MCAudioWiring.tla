----------------------------- MODULE MCAudioWiring -----------------------------
(* Two modules, two connections and a container.                             *)
EXTENDS AudioWiring

CONSTANTS outer, synth, reverb, cable, cable2, tap, echo, amp, pan

MCKind == [n \in Nodes |-> CASE n = outer -> "container"
                              [] n \in {synth, reverb} -> "module"
                              [] OTHER -> "connection"]

MCCasts == {{outer, synth, reverb, cable}, {synth, reverb, cable, cable2}}

Interchangeable ==
  {modules @@ bases :
     modules \in Permutations({synth, reverb}),
     bases \in Permutations(Bases)}
=============================================================================
