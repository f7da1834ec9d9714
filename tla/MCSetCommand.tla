----------------------------- MODULE MCSetCommand -----------------------------
(* A container with a container, a connection and a module in it; the inner  *)
(* container has a module, and another connection leads from anywhere to     *)
(* anywhere.                                                                 *)
EXTENDS SetCommand

CONSTANTS none, outer, inner, synth, reverb, high, low

MCNodes == {outer, inner, synth, reverb, high, low}
MCOrder == <<high, outer, inner, synth, low, reverb>>
MCKind == [n \in MCNodes |-> CASE n \in {outer, inner} -> "container"
                               [] n \in {high, low} -> "connection"
                               [] OTHER -> "module"]
MCParent == [n \in MCNodes |-> CASE n \in {outer, high} -> none
                                 [] n \in {inner, low, synth} -> outer
                                 [] OTHER -> inner]
MCAbove == [n \in MCNodes |-> CASE n \in {outer, high} -> {}
                                [] n \in {inner, low, synth} -> {outer}
                                [] OTHER -> {inner, outer}]

(* All but the connection on top have an "active" endpoint here. *)
Switches == {"outer", "inner", "synth", "reverb", "low"}
MCEndpoints == Switches \cup {"pitch", "level", "reset"}
MCOwnerOf == [e \in MCEndpoints |-> CASE e = "outer" -> outer
                                     [] e = "inner" -> inner
                                     [] e \in {"synth", "pitch"} -> synth
                                     [] e = "low" -> low
                                     [] OTHER -> reverb]
MCActiveOf == [n \in MCNodes |->
  IF n = high THEN none ELSE CHOOSE e \in Switches : MCOwnerOf[e] = n]

MCAllowed == [e \in MCEndpoints |-> CASE e = "pitch" -> 0..2
                                     [] e = "level" -> {0, 2}
                                     [] e = "reset" -> {}
                                     [] OTHER -> {0, 1}]

MCWirings ==
  {[c \in {high, low} |-> IF c = high THEN w ELSE x] :
     w \in [source : {"outer", "pitch", "level", "reset"}, target : {"inner", "level", "outer", none}],
     x \in [source : {"inner", "synth", "pitch"}, target : {"pitch", "level", "inner", "reset"}]}

(* Two in which modules change endpoints as well: connections that pass on *)
(* what a module has changed, in a circle, or switch what a module sets.   *)
MCFeedbackWirings ==
  {[c \in {high, low} |-> IF c = high THEN w ELSE x] :
     w \in {[source |-> "level", target |-> "pitch"], [source |-> "pitch", target |-> "inner"]},
     x \in {[source |-> "pitch", target |-> "level"]}}

MCAllWirings == MCWirings \cup MCFeedbackWirings
MCMaxFeedback == [w \in MCAllWirings |-> IF w \in MCFeedbackWirings THEN 2 ELSE 0]

(* Nothing is active to begin with. *)
MCBeginnings == {[e \in MCEndpoints |-> 0]}
=============================================================================
