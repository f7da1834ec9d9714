----------------------------- MODULE ModuleManager -----------------------------
(***************************************************************************)
(* CModuleManager: the modules that are loaded, where each came from, the  *)
(* file that each is kept in and the version that stands for a lineage.    *)
(* Modules are installed, uninstalled, tried out while they are developed, *)
(* and brought by projects; nodes are made of them meanwhile.  A module is *)
(* kept in the directory named by its source: get_file_path is always      *)
(* <<source, module>>.  "inDevelopment" stands for the places where users  *)
(* keep module files of their own.                                         *)
(***************************************************************************)
EXTENDS Naturals, FiniteSets

CONSTANTS
  Modules,         (* module ids; each version of a module has its own *)
  Shipped,         (* those in the system directory *)
  BuiltIn,         (* those implemented in libIntegra *)
  Origin,          (* the lineage of each module *)
  NodeIds,         (* ids of the nodes there may be *)
  SameFileSystem,  (* whether files can be renamed between the directories *)
  OwnFilesGo       (* whether users delete their own module files *)

Sources == {"shipped", "thirdParty", "embedded", "inDevelopment"}

ASSUME ManagerAssumption ==
  /\ BuiltIn \subseteq Shipped /\ Shipped \subseteq Modules
  /\ DOMAIN Origin = Modules
  /\ {SameFileSystem, OwnFilesGo} \subseteq BOOLEAN

VARIABLES
  registry,  (* the source of each loaded module, m_origin_id_map and the files *)
  nodes,     (* the module of each node there is *)
  orphans    (* history: nodes left by failed loads, which unloaded their modules *)

managed == <<registry, nodes, orphans>>

Loaded(reg) == DOMAIN reg.source
From(reg, src) == {m \in Loaded(reg) : reg.source[m] = src}
OriginsOf(ms) == {Origin[m] : m \in ms}

(* The order in which modules are met is open: which comes first of each lineage. *)
Firsts(ms) == {f \in [OriginsOf(ms) -> ms] : \A o \in OriginsOf(ms) : Origin[f[o]] = o}

InUse == {nodes[n] : n \in DOMAIN nodes \ orphans}

(* is_module_in_use asks each node for its interface definition.  That of  *)
(* an orphan was deleted, and may be taken for that of any module.         *)
FoundInUse ==
  {InUse \cup strays : strays \in {ms \in SUBSET Modules : Cardinality(ms) <= Cardinality(orphans)}}

-----------------------------------------------------------------------------
(* load_module and store_module, for modules that are not loaded: of a     *)
(* lineage, the module that was there first stays in the map.              *)
Entered(reg, new, src, first) ==
  [source  |-> [m \in Loaded(reg) \cup new |-> IF m \in new THEN src ELSE reg.source[m]],
   origins |-> [o \in DOMAIN reg.origins \cup OriginsOf(new) |->
                  IF o \in DOMAIN reg.origins THEN reg.origins[o] ELSE first[o]],
   files   |-> reg.files \cup {<<src, m>> : m \in new}]

(* A variant that leaves the entry of the lineage. *)
UnloadedKeepsOrigin(reg, old) ==
  [source  |-> [m \in Loaded(reg) \ old |-> reg.source[m]],
   origins |-> reg.origins,
   files   |-> reg.files \ {<<"embedded", m>> : m \in old \cap From(reg, "embedded")}]

(* unload_module *)
Unloaded(reg, old) ==
  [source  |-> [m \in Loaded(reg) \ old |-> reg.source[m]],
   origins |-> [o \in {o \in DOMAIN reg.origins : reg.origins[o] \notin old} |-> reg.origins[o]],
   files   |-> reg.files \ {<<"embedded", m>> : m \in old \cap From(reg, "embedded")}]

(* A variant that copies the files. *)
ResourcedCopies(reg, ms, src) ==
  [source  |-> [m \in Loaded(reg) |-> IF m \in ms THEN src ELSE reg.source[m]],
   origins |-> reg.origins,
   files   |-> reg.files \cup {<<src, m>> : m \in ms}]

(* change_module_source: nobody looks whether the rename succeeded.        *)
Resourced(reg, ms, src) ==
  LET moved == {m \in ms : SameFileSystem /\ <<reg.source[m], m>> \in reg.files}
  IN  [source  |-> [m \in Loaded(reg) |-> IF m \in ms THEN src ELSE reg.source[m]],
       origins |-> reg.origins,
       files   |-> (reg.files \ {<<reg.source[m], m>> : m \in moved})
                      \cup {<<src, m>> : m \in moved}]

-----------------------------------------------------------------------------
(* install_module, with a file the user has *)
InstallModule(m) ==
  /\ UNCHANGED <<nodes, orphans>>
  /\ <<"inDevelopment", m>> \in registry.files
  /\ \/ /\ m \notin Loaded(registry) \cup BuiltIn
        /\ \E first \in Firsts({m}) :
             registry' = Entered(registry, {m}, "thirdParty", first)
     \/ /\ m \in From(registry, "embedded")
        /\ registry' = Resourced(registry, {m}, "thirdParty")

InstallEmbeddedModule(m) ==
  /\ UNCHANGED <<nodes, orphans>>
  /\ m \in From(registry, "embedded")
  /\ registry' = Resourced(registry, {m}, "thirdParty")

(* A variant that does not look for instances. *)
UninstallAnyway(m) ==
  /\ UNCHANGED <<nodes, orphans>>
  /\ m \in From(registry, "thirdParty")
  /\ registry' = [Unloaded(registry, {m}) EXCEPT !.files = @ \ {<<"thirdParty", m>>}]

(* uninstall_module: when the file cannot be deleted, all stays.           *)
UninstallModule(m) ==
  /\ UNCHANGED <<nodes, orphans>>
  /\ m \in From(registry, "thirdParty")
  /\ \E used \in FoundInUse :
       \/ /\ m \in used
          /\ registry' = Resourced(registry, {m}, "embedded")
       \/ /\ m \notin used
          /\ <<"thirdParty", m>> \in registry.files
          /\ registry' = [Unloaded(registry, {m}) EXCEPT !.files = @ \ {<<"thirdParty", m>>}]

(* unload_module_in_development: what is in use stays as an embedded one.  *)
WithoutDevelopment(used) ==
  LET dev == From(registry, "inDevelopment")
  IN  Unloaded(Resourced(registry, dev \cap used, "embedded"), dev \ used)

(* load_module_in_development: the previous one goes, even when the new    *)
(* one cannot be loaded.                                                   *)
LoadModuleInDevelopment(m) ==
  /\ UNCHANGED <<nodes, orphans>>
  /\ \E used \in FoundInUse :
       LET rest == WithoutDevelopment(used)
       IN  IF m \notin Loaded(rest) \cup BuiltIn /\ <<"inDevelopment", m>> \in rest.files
             THEN \E first \in Firsts({m}) :
                    registry' = Entered(rest, {m}, "inDevelopment", first)
             ELSE registry' = rest

UnloadUnusedEmbeddedModules ==
  /\ UNCHANGED <<nodes, orphans>>
  /\ \E used \in FoundInUse :
       registry' = Unloaded(registry, From(registry, "embedded") \ used)

-----------------------------------------------------------------------------
(* load_from_integra_file: modules that are not yet loaded become embedded. *)
New(modules) == modules \ (Loaded(registry) \cup BuiltIn)

Brought(new) == {Entered(registry, new, "embedded", first) : first \in Firsts(new)}

(* When CFileIO::load fails, the modules the file brought are unloaded;    *)
(* nodes that were made before stay.                                       *)
Dropped(reg) == Unloaded(reg, Loaded(reg) \ Loaded(registry))

(* The nodes a load makes are of modules that are loaded then.             *)
Grow(reg) ==
  \E more \in SUBSET (NodeIds \ DOMAIN nodes) : \E module \in [more -> Loaded(reg)] :
    nodes' = [n \in DOMAIN nodes \cup more |-> IF n \in more THEN module[n] ELSE nodes[n]]

Orphaned ==
  {n \in DOMAIN nodes' \ DOMAIN nodes : nodes'[n] \notin Loaded(registry)}

Load(new) ==
  \E reg \in Brought(new) :
    /\ Grow(reg)
    /\ \/ registry' = reg /\ UNCHANGED orphans
       \/ registry' = Dropped(reg) /\ orphans' = orphans \cup Orphaned

(* CNewCommand, as far as the module manager goes *)
MakeNode(n, m) ==
  /\ n \in NodeIds \ DOMAIN nodes /\ m \in Loaded(registry)
  /\ UNCHANGED <<registry, orphans>>
  /\ nodes' = [i \in DOMAIN nodes \cup {n} |-> IF i = n THEN m ELSE nodes[i]]

DropNodes(gone) ==
  /\ UNCHANGED registry
  /\ nodes' = [i \in DOMAIN nodes \ gone |-> nodes[i]]
  /\ orphans' = orphans \ gone

-----------------------------------------------------------------------------
(* The constructor loads the two directories; of a crash, which leaves the *)
(* scratch directory, the next start removes the traces.                   *)
Installed(files) == {m \in Modules : <<"thirdParty", m>> \in files} \ Shipped

Started(files, first, second) ==
  LET empty == [source |-> [m \in {} |-> "shipped"], origins |-> [o \in {} |-> o],
                files |-> files \ {<<"embedded", m>> : m \in Modules}]
  IN  Entered(Entered(empty, Shipped, "shipped", first), Installed(files), "thirdParty", second)

StartWith(files) ==
  {Started(files, first, second) :
     first \in Firsts(Shipped), second \in Firsts(Installed(files))}

Restart ==
  /\ registry' \in StartWith(registry.files)
  /\ nodes' = [n \in {} |-> n] /\ orphans' = {}

(* Module Creator deletes the directories of its tests when it quits.      *)
OwnFileGoes(m) ==
  /\ UNCHANGED <<nodes, orphans>>
  /\ OwnFilesGo
  /\ registry' = [registry EXCEPT !.files = @ \ {<<"inDevelopment", m>>}]

(* Users have files of the modules that are not shipped; any may be installed. *)
ManagerInit ==
  /\ nodes = [n \in {} |-> n] /\ orphans = {}
  /\ \E installed \in SUBSET (Modules \ Shipped) :
       registry \in StartWith({<<"shipped", m>> : m \in Shipped}
                                \cup {<<"inDevelopment", m>> : m \in Modules \ Shipped}
                                \cup {<<"thirdParty", m>> : m \in installed})

ManageModules ==
  \/ \E m \in Modules :
       \/ InstallModule(m) \/ InstallEmbeddedModule(m) \/ UninstallModule(m)
       \/ LoadModuleInDevelopment(m) \/ OwnFileGoes(m)
  \/ UnloadUnusedEmbeddedModules

ManagerNext ==
  \/ \E n \in NodeIds, m \in Modules : MakeNode(n, m)
  \/ \E gone \in SUBSET DOMAIN nodes : DropNodes(gone)
  \/ ManageModules
  \/ \E new \in SUBSET New(Modules) : Load(new)
  \/ Restart

ManagerSpec == ManagerInit /\ [][ManagerNext]_managed

-----------------------------------------------------------------------------
(* Properties *)

(* A node refers to its interface definition as long as it lives.  However *)
(* modules are uninstalled, replaced and unloaded, and whatever the freed  *)
(* definitions are taken for when it is looked which are in use, a node's  *)
(* module is loaded; unless the load that made the node failed and brought *)
(* the module itself (orphans).                                            *)
NodesHaveModules == \A n \in DOMAIN nodes \ orphans : nodes[n] \in Loaded(registry)

(* The version that stands for a lineage is loaded, and of that lineage:   *)
(* m_origin_id_map holds no definition that was deleted.                   *)
OriginsLead ==
  \A o \in DOMAIN registry.origins :
    registry.origins[o] \in Loaded(registry) /\ Origin[registry.origins[o]] = o

(* "There can only ever be one in-development module loaded at a time."    *)
OneInDevelopment ==
  \A l, m \in From(registry, "inDevelopment") : l = m

(* Each loaded module has its file, from which a project that uses it can  *)
(* be saved; and the directories keep no other: what was uninstalled does  *)
(* not come back with the next start, and the scratch directory holds      *)
(* nothing that was unloaded.                                              *)
FilesMatchModules ==
  /\ \A m \in Loaded(registry) : <<registry.source[m], m>> \in registry.files
  /\ \A m \in Modules :
       /\ <<"embedded", m>> \in registry.files => m \in From(registry, "embedded")
       /\ <<"thirdParty", m>> \in registry.files \/ m \in Shipped
            => m \in From(registry, "thirdParty") \cup From(registry, "shipped")
=============================================================================
