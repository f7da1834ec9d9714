----------------------------- MODULE MCProjectFiles -----------------------------
(* Four modules: libIntegra's container and player, the player as it was     *)
(* before libIntegra had its own, and a synth, which alone has an attribute. *)
EXTENDS ProjectFiles

CONSTANTS box, play, oldPlay, synth

MCOrigin == [m \in Modules |-> IF m = oldPlay THEN play ELSE m]

MCNodeIds == 1..5

Line(depth, module, val) == [depth |-> depth, module |-> module, value |-> val]

(* A file that was edited by hand and fits the schema: a synth in a synth.   *)
MCEdited == {[doc |-> <<Line(1, synth, 1), Line(2, synth, 0)>>, modules |-> {synth}]}

(* Projects of other users: one from the days when the old player was        *)
(* libIntegra's own, and one that brings it, in a container in a container.  *)
MCReceived ==
  {[doc |-> <<Line(1, box, 0), Line(2, oldPlay, 0), Line(2, synth, 1)>>,
    modules |-> {synth}],
   [doc |-> <<Line(1, box, 0), Line(2, box, 0), Line(3, oldPlay, 0)>>,
    modules |-> {oldPlay}]}

(* load_nodes reads every document of up to five elements as it was written. *)
Documents ==
  {doc \in UNION {[1..k -> {Line(d, box, 0) : d \in 1..4} \cup {Line(d, synth, 1) : d \in 1..4}] :
                    k \in 1..5} :
     /\ doc[1].depth = 1
     /\ \A i \in 2..Len(doc) :
          \/ doc[i].depth \in 2..doc[i - 1].depth
          \/ doc[i].depth = doc[i - 1].depth + 1 /\ doc[i - 1].module = box}

AllLoaded == [source |-> [m \in Modules |-> "embedded"], origins |-> [m \in Modules |-> m]]

ASSUME ReadsDocuments ==
  \A doc \in Documents :
    LET r == LoadNodes(AllLoaded, doc, Reader(Nobody, Nobody, 0))
    IN  /\ r.state = "reading" /\ Len(r.made) = Len(doc)
        /\ \A i \in DOMAIN doc :
             /\ r.nodes[i] = doc[i].module /\ r.under[i] = Above(doc, i)
             /\ i \in DOMAIN r.loaded <=> doc[i].module = synth
=============================================================================
