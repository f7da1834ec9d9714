------------------------------ MODULE ProjectFiles ------------------------------
(***************************************************************************)
(* CFileIO with CModuleManager: trees of nodes are saved together with the *)
(* modules they are made of, and loaded again, in this session or another. *)
(* load_nodes reads the document as a stream: it knows the last node it    *)
(* made and the depth of the last element, nothing else.  Each node has    *)
(* one attribute, unless its module has none to save.  Names, and the data *)
(* files of nodes, are left out.  A command runs in the server's lock, and *)
(* is one step.                                                            *)
(***************************************************************************)
EXTENDS ModuleManager, Naturals, Sequences, SequencesExt, FiniteSetsExt

CONSTANTS
  Containers,  (* the modules whose nodes have children *)
  Stateless,   (* the modules without an attribute that is saved *)
  Values,      (* values of the attribute; 0 is the default *)
  MaxMade,     (* bound: nodes there may be after one is made by hand *)
  MaxNodes,    (* bound: nodes there may be after a load *)
  Received,    (* project files that come from elsewhere, ... *)
  Edited       (* ... and such that were edited by hand *)

ASSUME ProjectAssumption ==
  /\ Containers \subseteq Modules /\ Stateless \subseteq Modules
  /\ NodeIds = 1..Cardinality(NodeIds)
  /\ 0 \in Values /\ MaxMade \in NodeIds /\ MaxNodes \in NodeIds

VARIABLES
  under,    (* the parent of each node; 0 for none *)
  value,    (* the attribute of each node *)
  project   (* the file that was saved last *)

vars == <<registry, nodes, orphans, under, value, project>>

NoFile == [doc |-> <<>>, modules |-> {}]
Nobody == [n \in {} |-> 0]

Init ==
  /\ ManagerInit
  /\ under = Nobody /\ value = Nobody
  /\ project = NoFile

Children(p) == SetToSortSeq({n \in DOMAIN nodes : under[n] = p}, <)

(* A node and all that is below it, parents first, with their depths.      *)
Walk[n \in NodeIds, depth \in 1..Cardinality(NodeIds)] ==
  <<<<n, depth>>>> \o
    FlattenSeq([i \in DOMAIN Children(n) |-> Walk[Children(n)[i], depth + 1]])

Subtree(n) == {w[1] : w \in ToSet(Walk[n, 1])}

(* can_be_child_of *)
CanHold(p) == IF p = 0 THEN TRUE ELSE nodes[p] \in Containers

-----------------------------------------------------------------------------
(* Editing *)

Create(p, m) ==
  /\ Cardinality(DOMAIN nodes) < MaxMade /\ CanHold(p)
  /\ LET n == Min(NodeIds \ DOMAIN nodes)
     IN  /\ MakeNode(n, m)
         /\ under' = (n :> p) @@ under
         /\ value' = (n :> 0) @@ value
  /\ UNCHANGED project

SetValue(n, v) ==
  /\ nodes[n] \notin Stateless
  /\ value' = [value EXCEPT ![n] = v]
  /\ UNCHANGED <<registry, nodes, orphans, under, project>>

Delete(n) ==
  /\ DropNodes(Subtree(n))
  /\ under' = [i \in DOMAIN under \ Subtree(n) |-> under[i]]
  /\ value' = [i \in DOMAIN value \ Subtree(n) |-> value[i]]
  /\ UNCHANGED project

-----------------------------------------------------------------------------
(* Saving *)

(* A variant that embeds what was loaded as embedded only. *)
EmbeddedStays(ms) ==
  {m \in ms \cap From(registry, "embedded") : <<"embedded", m>> \in registry.files}

(* find_module_guids_to_embed, copy_node_modules_to_zip: a module without  *)
(* its file is left out, and the save succeeds.                            *)
ModulesToEmbed(ms) ==
  {m \in ms \ BuiltIn : <<registry.source[m], m>> \in registry.files}

(* save_node_tree *)
Document(n) ==
  [i \in DOMAIN Walk[n, 1] |->
     LET w == Walk[n, 1][i]
     IN  [depth |-> w[2], module |-> nodes[w[1]], value |-> value[w[1]]]]

Save(n) ==
  /\ project' = [doc |-> Document(n),
                 modules |-> ModulesToEmbed({nodes[i] : i \in Subtree(n)})]
  /\ UNCHANGED <<registry, nodes, orphans, under, value>>

-----------------------------------------------------------------------------
(* Loading *)

(* What the reader reports: the ends of elements as well, but for those    *)
(* that are empty.                                                         *)
Events(doc) ==
  LET Ends(i) ==
        LET next == IF i = Len(doc) THEN 1 ELSE doc[i + 1].depth
            all  == [k \in 1..(doc[i].depth + 1 - next) |->
                       [type |-> "end", depth |-> doc[i].depth + 1 - k]]
        IN  IF all # <<>> /\ doc[i].module \in Stateless THEN Tail(all) ELSE all
      Attribute(i) ==
        IF doc[i].module \in Stateless THEN <<>>
        ELSE <<[type |-> "attribute", value |-> doc[i].value]>>
  IN  FlattenSeq([i \in DOMAIN doc |->
        <<[type |-> "object", depth |-> doc[i].depth, module |-> doc[i].module]>>
          \o Attribute(i) \o Ends(i)])

(* get_inhouse_replacement_version, for a module that is loaded *)
Replacement(reg, m) ==
  LET best == reg.origins[Origin[m]]
  IN  IF best \in BuiltIn THEN best ELSE m

(* A variant that takes the element's word for it. *)
FindUnchecked(reg, m) == {m}

(* find_interface *)
FindInterface(reg, m) ==
  CASE m \in Loaded(reg) -> {Replacement(reg, m)}
    [] m \notin Loaded(reg) /\ Origin[m] \in DOMAIN reg.origins -> {reg.origins[Origin[m]]}
    [] OTHER -> {}

(* The reader starts at the node the file is loaded into; null is 0.       *)
Reader(there, parents, p) ==
  [nodes |-> there, under |-> parents, loaded |-> Nobody, at |-> p, prev |-> 0,
   made |-> <<>>, state |-> "reading"]

(* The node that is current, and the parent for the next, by the depth.  A *)
(* null node is not guarded against.                                       *)
Turned(r, depth) ==
  LET Up(n) == IF n = 0 THEN 0 ELSE r.under[n]
      at == IF depth < r.prev THEN Up(r.at) ELSE r.at
  IN  [at |-> at,
       parent |-> IF depth > r.prev THEN at ELSE Up(at),
       null |-> depth <= r.prev /\ at = 0]

Make(r, turn, m) ==
  LET n == Min(NodeIds \ DOMAIN r.nodes)
  IN  IF turn.parent # 0 /\ r.nodes[turn.parent] \notin Containers
        THEN [r EXCEPT !.state = "refused"]
        ELSE [r EXCEPT !.nodes = (n :> m) @@ @, !.under = (n :> turn.parent) @@ @,
                       !.at = n, !.made = Append(@, n)]

(* One turn of the loop in load_nodes.  An element whose interface is not  *)
(* found makes no node, and the node before it stays the current one.      *)
Read(reg, r, e) ==
  CASE r.state # "reading" -> r
    [] r.state = "reading" /\ e.type = "attribute" ->
         IF r.at = 0 THEN [r EXCEPT !.state = "crashed"]
         ELSE IF r.nodes[r.at] \in Stateless THEN r
         ELSE [r EXCEPT !.loaded = (r.at :> e.value) @@ @]
    [] r.state = "reading" /\ e.type \in {"object", "end"} ->
         LET turn  == Turned(r, e.depth)
             moved == [r EXCEPT !.at = turn.at, !.prev = e.depth]
             found == IF e.type = "object" THEN FindInterface(reg, e.module) ELSE {}
         IN  IF turn.null THEN [r EXCEPT !.state = "crashed"]
             ELSE IF found = {} THEN moved
             ELSE Make(moved, turn, CHOOSE m \in found : TRUE)

LoadNodes(reg, doc, reader) ==
  FoldLeft(LAMBDA r, e : Read(reg, r, e), reader, Events(doc))

(* The values that were read are set when all nodes are there.             *)
Succeeds(r, reg) ==
  /\ r.state = "reading"
  /\ registry' = reg /\ UNCHANGED orphans
  /\ value' = [n \in DOMAIN r.nodes |->
                 IF n \in DOMAIN r.loaded THEN r.loaded[n]
                 ELSE IF n \in DOMAIN value THEN value[n] ELSE 0]

Fails(r, reg) ==
  /\ r.state = "refused"
  /\ registry' = Dropped(reg) /\ orphans' = orphans \cup Orphaned
  /\ value' = [n \in DOMAIN r.nodes |-> IF n \in DOMAIN value THEN value[n] ELSE 0]

(* The data of the file go to the first node made, which is undefined when *)
(* every element was skipped.                                              *)
Headless(r) == r.state = "reading" /\ r.made = <<>>

RestartServer == Restart /\ under' = Nobody /\ value' = Nobody

(* CFileIO::load, of a file that can be read.                              *)
Open(file, p) ==
  /\ UNCHANGED project
  /\ Len(file.doc) \in 1..MaxNodes - Cardinality(DOMAIN nodes)
  /\ \E reg \in Brought(New(file.modules)) :
       LET r == LoadNodes(reg, file.doc, Reader(nodes, under, p))
       IN  \/ /\ nodes' = r.nodes /\ under' = r.under
              /\ Succeeds(r, reg) \/ Fails(r, reg)
           \/ (r.state = "crashed" \/ Headless(r)) /\ RestartServer

(* The document is not valid, or of a later version: no node is made.      *)
OpenInvalid(file) ==
  /\ \E reg \in Brought(New(file.modules)) : registry' = Dropped(reg)
  /\ UNCHANGED <<nodes, orphans, under, value, project>>

-----------------------------------------------------------------------------
Work ==
  \/ \E m \in Modules, p \in DOMAIN nodes \cup {0} : Create(p, m)
  \/ \E n \in DOMAIN nodes : Save(n) \/ \E v \in Values : SetValue(n, v)
  \/ \E file \in {project} \cup Received \cup Edited :
       OpenInvalid(file) \/ \E p \in DOMAIN nodes \cup {0} : Open(file, p)

(* The bound: how nodes whose definitions are gone are worked with is not  *)
(* followed, until they are deleted.                                       *)
Next ==
  \/ orphans = {} /\ Work
  \/ \E n \in DOMAIN nodes : Delete(n)
  \/ ManageModules /\ UNCHANGED <<under, value, project>>
  \/ RestartServer /\ UNCHANGED project

Spec == Init /\ [][Next]_vars

-----------------------------------------------------------------------------
(* Properties *)

(* Where the elements of a document are: each below the last before it     *)
(* that is one level up.                                                   *)
Above(doc, i) ==
  Max({0} \cup {j \in 1..i - 1 : doc[j].depth = doc[i].depth - 1})

SameModule(m, saved) ==
  \/ m = saved
  \/ m \in BuiltIn /\ Origin[m] = Origin[saved]

(* A file that was transferred to another user, who has other modules, or  *)
(* other versions of the same, offers the exact original functionality     *)
(* (the api's main page): the nodes that a load makes are those of the     *)
(* document, each in its place with its module and its value, except that  *)
(* libIntegra's own version of a module takes its place.                   *)
Opened(doc, p) ==
  LET made == SetToSortSeq(DOMAIN nodes' \ DOMAIN nodes, <)
  IN  /\ Len(made) = Len(doc)
      /\ \A i \in DOMAIN doc :
           /\ SameModule(nodes'[made[i]], doc[i].module)
           /\ nodes'[made[i]] \notin Stateless => value'[made[i]] = doc[i].value
           /\ under'[made[i]] = IF Above(doc, i) = 0 THEN p ELSE made[Above(doc, i)]

OpensAsSaved ==
  [][\A file \in {project} \cup Received, p \in DOMAIN nodes \cup {0} :
       orphans = {} /\ CanHold(p) /\ Open(file, p) => Opened(file.doc, p)]_managed

(* What the module manager promises is kept, however files are read.       *)
ImplementsManager == ManagerSpec
=============================================================================
