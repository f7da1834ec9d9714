------------------------------- MODULE NodeTree -------------------------------
(***************************************************************************)
(* The tree of nodes that CServer keeps, the state table that finds a node *)
(* by path or id, and the paths inside connection nodes: what the new,     *)
(* delete, move, rename and set commands do to them.  A command runs under *)
(* the server's lock (module ServerLock), so each is one step.             *)
(*                                                                         *)
(* A name is a base and a number of further characters: the underscores    *)
(* the code appends to a name in use.  Bases are never prefixes of each    *)
(* other; names with one base are.  A path is a sequence of names, and a   *)
(* connection's end is a path below the connection's owner, followed by an *)
(* endpoint that no command changes and that is left out.                  *)
(***************************************************************************)
EXTENDS Naturals, Sequences, SequencesExt, FiniteSets, TLC

CONSTANTS
  Nodes,     (* the nodes there may be, by internal id *)
  Kind,      (* what interface each of them has *)
  Bases,     (* the bases of names *)
  MaxExtra,  (* bound: most characters after a base *)
  MaxLength, (* bound: most names in the end of a connection *)
  Ends,      (* the path endpoints of a connection *)
  Top        (* the parent of a top-level node *)

Kinds == {"container", "connection", "player", "scene", "envelope",
          "control_point", "module"}

ASSUME NodeTreeAssumption ==
  /\ IsFiniteSet(Nodes) /\ Top \notin Nodes
  /\ Kind \in [Nodes -> Kinds]
  /\ MaxExtra \in Nat /\ MaxLength \in Nat

Names == [base : Bases, extra : 0..MaxExtra]
OfKind(kind) == {n \in Nodes : Kind[n] = kind}
Connections == OfKind("connection")
Places == Nodes \cup {Top}

VARIABLES
  alive,    (* the nodes that exist *)
  parent,   (* m_parent *)
  name,     (* m_name *)
  path,     (* m_path *)
  children, (* m_children of each node; those of Top are the server's m_nodes *)
  byPath,   (* the state table's m_nodes *)
  byId,     (* the state table's m_nodes_by_id *)
  ends      (* values of sourcePath and targetPath *)

vars == <<alive, parent, name, path, children, byPath, byId, ends>>

NoName == [base |-> "none", extra |-> 0]

(* What the variables say of a node that does not exist means nothing.     *)
Init ==
  /\ alive = {}
  /\ parent = [n \in Nodes |-> Top]
  /\ name = [n \in Nodes |-> NoName]
  /\ path = [n \in Nodes |-> <<>>]
  /\ children = [p \in Places |-> <<>>]
  /\ byPath = <<>> /\ byId = {}
  /\ ends = [c \in Connections |-> [e \in Ends |-> <<>>]]

-----------------------------------------------------------------------------
(* The tree *)

(* A node and all below it, by way of the m_children maps. *)
Subtree(n) ==
  LET level[k \in Nat] ==
        IF k = 0 THEN {n}
        ELSE LET upper == level[k - 1]
             IN  upper \cup UNION {Range(children[m]) : m \in upper}
  IN  level[Cardinality(Nodes)]

(* The nodes above a place, itself included, by way of m_parent. *)
AtOrAbove(p) ==
  LET level[k \in Nat] ==
        IF k = 0 THEN {p}
        ELSE LET lower == level[k - 1] IN lower \cup {parent[m] : m \in lower \ {Top}}
  IN  level[Cardinality(Nodes)]

PathOf(p) == IF p = Top THEN <<>> ELSE path[p]

CanBeChildOf(n, p) ==
  p \in CASE Kind[n] = "scene"         -> OfKind("player")
          [] Kind[n] = "control_point" -> OfKind("envelope")
          [] OTHER                     -> OfKind("container") \cup {Top}

(* Names still free at p: the wanted one, or with the fewest underscores.  *)
FreeName(p, wanted) ==
  LET longer == {nm \in Names \ DOMAIN children[p] :
                   nm.base = wanted.base /\ nm.extra >= wanted.extra}
  IN  {nm \in longer : \A other \in longer : nm.extra <= other.extra}

(* f, and what g says elsewhere; f but for some arguments.                 *)
Over(f, g) == [x \in DOMAIN f \cup DOMAIN g |-> IF x \in DOMAIN f THEN f[x] ELSE g[x]]
Without(f, keys) == Restrict(f, DOMAIN f \ keys)
Erase(maps, p, nm) == [maps EXCEPT ![p] = Without(@, {nm})]
Insert(maps, p, nm, n) == [maps EXCEPT ![p] = Over([k \in {nm} |-> n], @)]

(* A variant that updates the path of n alone. *)
RepathedAlone(n, p, nm) == [m \in {n} |-> Append(PathOf(p), nm)]

(* update_all_paths of n, when it is called nm and is a child of p. *)
Repathed(n, p, nm) ==
  LET new[m \in Subtree(n)] ==
        IF m = n THEN Append(PathOf(p), nm) ELSE Append(new[parent[m]], name[m])
  IN  new

NewPath(n, p, nm) == Over(Repathed(n, p, nm), path)

(* The state table with n and what is below it removed ...                 *)
Removed(n) == Without(byPath, {path[m] : m \in Subtree(n)})

(* ... and with nodes added by the paths they now have: an entry that is   *)
(* there already stays.                                                    *)
Added(table, newPaths) ==
  Over(table, [p \in Range(newPaths) |-> CHOOSE m \in DOMAIN newPaths : newPaths[m] = p])

-----------------------------------------------------------------------------
(* Paths in connections *)

(* The comparison is one of strings: the last name of the prefix may be    *)
(* the beginning of a longer name.                                         *)
BeginsWith(p, prefix) ==
  /\ Len(prefix) <= Len(p)
  /\ Front(prefix) = SubSeq(p, 1, Len(prefix) - 1)
  /\ LET a == p[Len(prefix)] b == Last(prefix)
     IN  a.base = b.base /\ a.extra >= b.extra

Reprefixed(p, prefix, new) ==
  LET extra == Last(new).extra + p[Len(prefix)].extra - Last(prefix).extra
  IN  Front(new) \o <<[Last(new) EXCEPT !.extra = extra]>>
        \o SubSeq(p, Len(prefix) + 1, Len(p))

Below(owner, p) == SubSeq(p, Len(PathOf(owner)) + 1, Len(p))

(* A variant that looks among the siblings of n only. *)
EndsRenamedHere(n, new) ==
  [c \in Connections |-> [e \in Ends |->
    IF c \in alive /\ parent[c] = parent[n] /\ BeginsWith(ends[c][e], <<name[n]>>)
      THEN Reprefixed(ends[c][e], <<name[n]>>, <<Last(new)>>)
      ELSE ends[c][e]]]

(* update_connections_on_rename: the connections among the siblings of n   *)
(* and of each node above it, whose own paths do not change.               *)
EndsRenamed(n, new) ==
  [c \in Connections |-> [e \in Ends |->
    LET p == ends[c][e]
        owner == parent[c]
        previous == Below(owner, path[n])
    IN  IF c \in alive /\ owner \in AtOrAbove(parent[n]) /\ BeginsWith(p, previous)
          THEN Reprefixed(p, previous, Below(owner, new))
          ELSE p]]

(* update_connections_on_move: the connections among the siblings of n and *)
(* of each node above it where it is now.  n itself may be one of them.    *)
EndsMoved(n, newParent, new) ==
  [c \in Connections |-> [e \in Ends |->
    LET p == ends[c][e]
        owner == IF c = n THEN newParent ELSE parent[c]
        absolute == PathOf(owner) \o p
    IN  IF /\ c \in alive /\ owner \in AtOrAbove(newParent)
           /\ BeginsWith(absolute, path[n])
           /\ IsPrefix(PathOf(owner), new)
          THEN Below(owner, Reprefixed(absolute, path[n], new))
          ELSE p]]

(* The bounds, for what rewriting makes of ends that refer to nothing. *)
Bounded ==
  \A c \in Connections, e \in Ends :
    ends'[c][e] \in Seq(Names) /\ Len(ends'[c][e]) <= MaxLength

-----------------------------------------------------------------------------
(* The commands *)

NewCommand(n, p, wanted) ==
  /\ n \notin alive /\ p \in alive \cup {Top}
  /\ CanBeChildOf(n, p)
  /\ \E nm \in FreeName(p, wanted) :
       /\ name' = [name EXCEPT ![n] = nm]
       /\ path' = [path EXCEPT ![n] = Append(PathOf(p), nm)]
       /\ children' = Insert(children, p, nm, n)
       /\ byPath' = Added(byPath, [m \in {n} |-> path'[m]])
  /\ alive' = alive \cup {n}
  /\ parent' = [parent EXCEPT ![n] = p]
  /\ byId' = byId \cup {n}
  /\ UNCHANGED ends

(* Each child is deleted by a command of its own, before its parent. *)
DeleteCommand(n) ==
  /\ n \in alive
  /\ LET gone == Subtree(n)
     IN  /\ alive' = alive \ gone
         /\ parent' = Over([m \in gone |-> Top], parent)
         /\ name' = Over([m \in gone |-> NoName], name)
         /\ path' = Over([m \in gone |-> <<>>], path)
         /\ children' = Over([m \in gone |-> <<>>], Erase(children, parent[n], name[n]))
         /\ byPath' = Removed(n) /\ byId' = byId \ gone
         /\ ends' = Over([c \in gone \cap Connections |-> [e \in Ends |-> <<>>]], ends)

(* The node's own name is in use too: to ask for it again appends to it.   *)
RenameCommand(n, wanted) ==
  /\ n \in alive
  /\ \E nm \in FreeName(parent[n], wanted) :
       LET new == NewPath(n, parent[n], nm)
       IN  /\ path' = new
           /\ name' = [name EXCEPT ![n] = nm]
           /\ children' = Insert(Erase(children, parent[n], name[n]), parent[n], nm, n)
           /\ byPath' = Added(Removed(n), Restrict(new, Subtree(n)))
           /\ ends' = EndsRenamed(n, new[n])
  /\ Bounded
  /\ UNCHANGED <<alive, parent, byId>>

(* The process ends; a new one begins with no nodes. *)
Restart ==
  /\ alive' = {} /\ byPath' = <<>> /\ byId' = {}
  /\ parent' = [n \in Nodes |-> Top]
  /\ name' = [n \in Nodes |-> NoName]
  /\ path' = [n \in Nodes |-> <<>>]
  /\ children' = [p \in Places |-> <<>>]
  /\ ends' = [c \in Connections |-> [e \in Ends |-> <<>>]]

(* The update of the paths does not come to an end in a node placed below  *)
(* itself; the error message of a refused move reads the new parent where  *)
(* there is none.                                                          *)
Crashes(n, p) ==
  IF CanBeChildOf(n, p) THEN p \in Subtree(n) ELSE p = Top

(* What is left of freed nodes. *)
Free(gone) ==
  /\ alive' = alive \ gone
  /\ parent' = Over([m \in gone |-> Top], parent)
  /\ name' = Over([m \in gone |-> NoName], name)
  /\ path' = Over([m \in gone |-> <<>>], path)
  /\ ends' = Over([c \in gone \cap Connections |-> [e \in Ends |-> <<>>]], ends)

(* A refused node is freed with its children, and stays in the tables.     *)
Refuse(n) ==
  /\ Free(Subtree(n))
  /\ children' = Over([m \in Subtree(n) |-> <<>>], children)
  /\ UNCHANGED <<byPath, byId>>

(* The name is not looked for: a node that has it at p stays in the state  *)
(* table and is no child of p any more.                                    *)
MoveTo(n, p) ==
  LET new == NewPath(n, p, name[n])
  IN  /\ path' = new
      /\ children' = Insert(Erase(children, parent[n], name[n]), p, name[n], n)
      /\ byPath' = Added(Removed(n), Restrict(new, Subtree(n)))
      /\ ends' = EndsMoved(n, p, new[n])
      /\ Bounded
      /\ parent' = [parent EXCEPT ![n] = p]
      /\ UNCHANGED <<alive, name, byId>>

MoveCommand(n, p) ==
  /\ n \in alive /\ p \in alive \cup {Top}
  /\ \/ Crashes(n, p) /\ Restart
     \/ ~Crashes(n, p) /\ ~CanBeChildOf(n, p) /\ Refuse(n)
     \/ ~Crashes(n, p) /\ CanBeChildOf(n, p) /\ MoveTo(n, p)

NameTaken(n, p) == p # parent[n] /\ name[n] \in DOMAIN children[p]

(* What the code leaves to the caller of a move.                           *)
GoodMove(n, p) == CanBeChildOf(n, p) /\ p \notin Subtree(n) /\ ~NameTaken(n, p)

(* What a caller sets the ends to: a node below the owner, or a name that  *)
(* nothing may have.                                                       *)
EndValues(owner) ==
  {<<nm>> : nm \in Names}
    \cup {Below(owner, path[m]) : m \in UNION {Subtree(k) : k \in Range(children[owner])}}

(* The set command on an end of a connection. *)
SetPath(c, e, p) ==
  /\ p \in EndValues(parent[c])
  /\ ends' = [ends EXCEPT ![c][e] = p]
  /\ UNCHANGED <<alive, parent, name, path, children, byPath, byId>>

Command ==
  \/ \E n \in Nodes, p \in Places, nm \in Names : NewCommand(n, p, nm)
  \/ \E n \in Nodes : DeleteCommand(n)
  \/ \E n \in Nodes, nm \in Names : RenameCommand(n, nm)
  \/ \E n \in Nodes, p \in Places : MoveCommand(n, p)
  \/ \E c \in Connections \cap alive, e \in Ends :
       \E p \in EndValues(parent[c]) : SetPath(c, e, p)

(* The state table has no freed node in it and has lost none. *)
Intact ==
  /\ byId = alive
  /\ \A n \in alive : path[n] \in DOMAIN byPath /\ byPath[path[n]] = n

(* The bound: what further commands make of freed and lost nodes, through  *)
(* pointers that dangle, is not followed.                                  *)
Next ==
  \/ Intact /\ Command
  \/ ~Intact /\ UNCHANGED vars

Spec == Init /\ [][Next]_vars

-----------------------------------------------------------------------------
(* Properties *)

(* The two ways through the tree agree: m_parent and m_name of a node, and *)
(* the one map that lists it, under that name.  So names are unique among  *)
(* siblings.                                                               *)
ParentsListChildren ==
  /\ \A n \in alive :
       /\ parent[n] \in alive \cup {Top}
       /\ name[n] \in DOMAIN children[parent[n]]
       /\ children[parent[n]][name[n]] = n
  /\ \A p \in alive \cup {Top} : \A nm \in DOMAIN children[p] :
       /\ children[p][nm] \in alive
       /\ parent[children[p][nm]] = p /\ name[children[p][nm]] = nm

(* Whatever was renamed or moved above it, the path a node stores is the   *)
(* chain of the names above it, and the state table finds each node that   *)
(* exists by that path and by its id, and nothing else.                    *)
TableFindsNodes ==
  /\ \A n \in alive : path[n] = Append(PathOf(parent[n]), name[n])
  /\ \A n \in alive : path[n] \in DOMAIN byPath /\ byPath[path[n]] = n
  /\ \A p \in DOMAIN byPath : byPath[p] \in alive /\ path[byPath[p]] = p
  /\ byId = alive

CopiesAgree == ParentsListChildren /\ TableFindsNodes

(* All copies of the tree go on agreeing, whatever command is executed and *)
(* however often the process ends and begins again, but for a move that    *)
(* the node's logic refuses, or to where the node's name is taken.         *)
CopiesStayInStep ==
  [][\/ CopiesAgree'
     \/ ~CopiesAgree
     \/ \E n \in alive, p \in Places :
          (~CanBeChildOf(n, p) \/ NameTaken(n, p)) /\ MoveCommand(n, p)]_vars

(* The node an end refers to, if any: find_node relative to the owner.     *)
Referred(c, e) ==
  LET absolute == PathOf(parent[c]) \o ends[c][e]
  IN  {n \in alive : ends[c][e] # <<>> /\ path[n] = absolute}

(* Neither m nor a node above it has a sibling whose name begins its own.  *)
Unambiguous(m) ==
  \A a \in AtOrAbove(m) \cap Nodes : \A b \in alive \ {a} :
    parent[a] = parent[b] => ~BeginsWith(<<name[a]>>, <<name[b]>>)

(* In this step the tree changes, loses no node, and m stays where the     *)
(* connection can refer to it: below its owner, which stays what it is.    *)
InReach(c, m) ==
  /\ {c, m} \subseteq alive' /\ Intact'
  /\ <<alive, parent, name>> # <<alive, parent, name>>'
  /\ parent'[c] = parent[c] /\ (parent[c] \in AtOrAbove(parent[m]))'

(* A connection goes on referring to the node it refers to when nodes are  *)
(* renamed, moved, created and deleted, provided that no name on the way   *)
(* begins with the name of a sibling.                                      *)
ConnectionsFollow ==
  [][\A c \in Connections \cap alive, e \in Ends : \A m \in Referred(c, e) :
       InReach(c, m) /\ Unambiguous(m) => Referred(c, e)' = {m}]_vars

=============================================================================
