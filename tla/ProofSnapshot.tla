---------------------------- MODULE ProofSnapshot ----------------------------
(***************************************************************************)
(* The sources a build of the gate sees, as                                *)
(* prepare-ordinary-wallet-plan-proof-snapshot.py prepares them: it copies *)
(* the locked archives, index entries and Git databases out of a Cargo     *)
(* home that others use, lets Cargo unpack a copy of the copy, holds what  *)
(* Cargo made against the archives, makes the final home itself, writes    *)
(* down what is in it, and verifies that before and after a build. A       *)
(* digest stands for what it is a digest of.                               *)
(***************************************************************************)
EXTENDS Integers, Sequences, FiniteSets, SequencesExt

CONSTANTS
  Lockfile,         \* the registry packages of the lock, in its order
  CrateOf,          \* the crate a package is a version of
  Locks,            \* bound: what the lock pins: an archive for each package,
                    \*   an index record for each, and the listing of the commit;
                    \*   with an index entry that has the records
  KeptRoots, KeptDatabase,  \* bound: and the rest of a home Cargo keeps in order
  RootChoices,      \* bound: what registry/index may be: configurations by name
  ArchiveChoices,   \* bound: contents of an archive
  IndexChoices,     \* bound: contents of an index entry
  DatabaseChoices,  \* bound: what a Git database may be
  NodeEdits,        \* bound: nodes that are put into an unpacked tree
  MetaChoices,      \* bound: what .git of a checkout may be
  Credentials,      \* the names verify_cache_state refuses in a Cargo home
  MaxCacheFiles,    \* MAX_CACHE_FILES
  MaxCacheEntries,  \* MAX_CACHE_ENTRIES
  Files,            \* FILES, and the files of the commit that is checked
  Edits,            \* bound: edits somebody else makes
  Nil              \* not there; rejected

(* A lock and a list of files are sequences, and so is a path.             *)
ASSUME SnapshotAssumption ==
  /\ Lockfile \in Seq(Range(Lockfile)) /\ Files \in Seq(Range(Files))
  /\ \A pinned \in Locks : \A p \in Range(Lockfile) : \A m \in Range(pinned.archive[p]) :
       m.path \in Seq(Range(m.path))

Locked == Range(Lockfile)
Crates == {CrateOf[p] : p \in Locked}
Homes == {"source", "authority", "materialized", "final"}
Builder == "builder"              \* the user a build runs as

VARIABLES
  lock,       \* what the lock pins
  home,       \* the Cargo homes
  work,       \* the working tree that is checked
  trees,       \* the two trees copied from it, with the inventory of the first
  selected,   \* exact_cache_sources: what each selected file held
  copied,     \* copy_safe_cargo_cache: what was written of each
  ledger,     \* the authority file next to each thing sealed
  printed,    \* the digests of them that the gate keeps
  todo,       \* what is left to do
  edits,      \* edits left to others
  verdict     \* what it came to

snapshotVars == <<lock, home, work, trees, selected, copied, ledger, printed, todo, edits, verdict>>

Node(kind, data, mode) == [kind |-> kind, data |-> data, mode |-> mode, links |-> 1]
File(data, mode) == Node("file", data, mode)
Nothing == [x \in {} |-> Nil]
With(f, x, v) == [y \in DOMAIN f \cup {x} |-> IF y = x THEN v ELSE f[y]]
Without(f, x) == [y \in DOMAIN f \ {x} |-> f[y]]

-----------------------------------------------------------------------------
(* An archive is a sequence of members: kind, path, data, executable.      *)
SafePart(part) == part \notin {"", ".", "..", "with newline"}
Parents(path) == {SubSeq(path, 1, n) : n \in 1..(Len(path) - 1)}

SafePath(path, package) ==
  path # << >> /\ Head(path) = package /\ \A i \in DOMAIN path : SafePart(path[i])

(* Where a member goes, and the paths that are taken by it: nothing is      *)
(* unpacked twice, or where a later member has made a directory.           *)
Inner(m) == Tail(m.path)
Taken(m) == IF Inner(m) = << >> THEN {} ELSE Parents(Inner(m)) \cup {Inner(m)}

MemberHolds(archive, i, package) ==
  LET m == archive[i] IN
  /\ m.kind \in {"file", "dir"} /\ SafePath(m.path, package)
  /\ Inner(m) = << >> => m.kind = "dir"
  /\ \A j \in 1..(i - 1) : Inner(m) \notin Taken(archive[j])

Bodies(archive) == {m \in Range(archive) : m.kind = "file"}
Unpacked(archive) ==
  [files |-> [path \in {Inner(m) : m \in Bodies(archive)} |->
                LET m == CHOOSE body \in Bodies(archive) : Inner(body) = path
                IN File(m.data, IF m.exec THEN "755" ELSE "644")],
   dirs |-> UNION {Taken(m) \ IF m.kind = "file" THEN {Inner(m)} ELSE {} : m \in Range(archive)}]

Marker == <<".cargo-ok">>

(* registry_archive_entries.                                               *)
ArchiveEntries(archive, package) ==
  IF \E i \in DOMAIN archive : ~MemberHolds(archive, i, package) THEN Nil
  ELSE IF \/ Bodies(archive) = {}
          \/ \E m \in Range(archive) : Marker \in Taken(m)
  THEN Nil ELSE Unpacked(archive)

(* git_tree_files: the listing of a commit.                                *)
ListedSafely(entry) ==
  /\ entry.mode \in {"100644", "100755"} /\ entry.type = "blob"
  /\ entry.path # << >> /\ \A i \in DOMAIN entry.path : SafePart(entry.path[i])

TreeFiles(listing) ==
  IF \/ listing = << >> \/ \E i \in DOMAIN listing : ~ListedSafely(listing[i])
     \/ \E i, j \in DOMAIN listing : i # j /\ listing[i].path = listing[j].path
  THEN Nil
  ELSE [path \in {entry.path : entry \in Range(listing)} |->
          LET entry == CHOOSE e \in Range(listing) : e.path = path
          IN File(entry.data, IF entry.mode = "100755" THEN "755" ELSE "644")]

(* validate_sparse_entry: versions with their records; the locked one is   *)
(* there once, and is the reviewed one.                                    *)
SparseEntryHolds(entry, p) ==
  LET fields == entry.fields
      own == {i \in DOMAIN fields : fields[i].record.vers = p}
  IN /\ entry.known
     /\ \A i \in DOMAIN fields : /\ fields[i].version = fields[i].record.vers
                                 /\ fields[i].record.name = CrateOf[p]
     /\ Cardinality(own) = 1
     /\ \A i \in own : /\ fields[i].record.cksum = lock.archive[p]
                       /\ fields[i].record = lock.record[p]

Booleans == {"true", "false"}
SettingOf(lines, key, absent) ==
  IF \E i \in DOMAIN lines : lines[i].key = key
  THEN lines[CHOOSE i \in DOMAIN lines : lines[i].key = key].value ELSE absent
KeysOf(lines) == {lines[i].key : i \in DOMAIN lines}
DistinctKeys(lines) == \A i, j \in DOMAIN lines : lines[i].key = lines[j].key => i = j

(* validate_git_config and validate_checkout_git_config.                   *)
BareConfigHolds(lines) ==
  /\ DistinctKeys(lines)
  /\ SettingOf(lines, "bare", Nil) = "true" /\ SettingOf(lines, "repositoryformatversion", Nil) = "0"
  /\ KeysOf(lines) \subseteq
       {"bare", "repositoryformatversion", "filemode", "ignorecase", "precomposeunicode"}
  /\ SettingOf(lines, "filemode", Nil) \in Booleans
  /\ \A key \in {"ignorecase", "precomposeunicode"} : SettingOf(lines, key, "true") \in Booleans

PlatformOptions == {"core.ignorecase", "core.precomposeunicode", "core.autocrlf"}
CheckoutConfigHolds(lines, database) ==
  /\ DistinctKeys(lines)
  /\ KeysOf(lines) \subseteq
       {"core.repositoryformatversion", "core.bare", "core.filemode", "core.logallrefupdates",
        "remote.url", "remote.fetch", "branch.remote", "branch.merge"} \cup PlatformOptions
  /\ SettingOf(lines, "core.repositoryformatversion", Nil) = "0"
  /\ SettingOf(lines, "core.bare", Nil) = "false"
  /\ SettingOf(lines, "remote.fetch", Nil) = "heads to origin"
  /\ SettingOf(lines, "core.filemode", Nil) \in Booleans
  /\ \A key \in {"core.logallrefupdates"} \cup PlatformOptions :
       SettingOf(lines, key, "true") \in Booleans
  /\ SettingOf(lines, "remote.url", Nil) = database
  /\ KeysOf(lines) \cap {"branch.remote", "branch.merge"} # {} =>
       /\ SettingOf(lines, "branch.remote", Nil) = "origin"
       /\ SettingOf(lines, "branch.merge", Nil) = "refs/heads/master"

(* validate_git_objects: loose objects, and packs with their indexes.      *)
ObjectsHold(objects) ==
  /\ \A o \in objects : o.kind \in {"loose", "pack", "idx"}
  /\ {o.id : o \in {x \in objects : x.kind = "pack"}} = {o.id : o \in {x \in objects : x.kind = "idx"}}

(* A database as exact_cache_sources accepts it; fsck is Git's.            *)
DatabaseHolds(db) ==
  /\ db # Nil
  /\ BareConfigHolds(db.config) /\ db.head = "master" /\ db.ref = "commit"
  /\ Cardinality(db.objects) <= MaxCacheEntries /\ ObjectsHold(db.objects)
  /\ db.intact /\ TreeFiles(lock.tree) # Nil

(* validate_checkout_git_metadata: what .git of a checkout may hold.       *)
Fixed == {"HEAD", "config", "description", "FETCH_HEAD", "index", "info/exclude",
          "logs/HEAD", "logs/refs/heads/master", "refs/heads/master"}
Hooks == {"hooks/commit.sample"}

MetadataHolds(meta, database, constructed) ==
  /\ {"config", "HEAD", "index"} \subseteq DOMAIN meta.modes
  /\ CheckoutConfigHolds(meta.config, database)
  /\ meta.head = "commit" \/ (meta.head = "master" /\ meta.master = "commit")
  /\ constructed => DOMAIN meta.modes \cap (Hooks \cup {"description", "info/exclude"}) = {}
  /\ \A name \in DOMAIN meta.modes :
       \/ name \in Fixed /\ meta.modes[name] = "644"
       \/ name \in Hooks /\ meta.modes[name] = "755"

(* exact_regular_source_tree: files and directories of a tree, none of     *)
(* them linked.                                                            *)
RegularTree(tree) ==
  IF \E path \in DOMAIN tree :
       tree[path].kind \notin {"file", "dir"} \/ (tree[path].kind = "file" /\ tree[path].links # 1)
  THEN Nil
  ELSE LET files == {path \in DOMAIN tree : tree[path].kind = "file"}
       IN [files |-> [path \in files |-> tree[path]], dirs |-> DOMAIN tree \ files]

-----------------------------------------------------------------------------
(* The steps, each with the home it reads, the one it writes and an item.  *)
Op(name, from, to, item) == [op |-> name, from |-> from, to |-> to, item |-> item]

Select(x) ==
  <<Op("begin", x, x, Nil), Op("config", x, x, Nil)>> \o
  [i \in 1..(2 * Len(Lockfile)) |->
     Op(IF i % 2 = 1 THEN "archive" ELSE "index", x, x, Lockfile[(i + 1) \div 2])] \o
  <<Op("database", x, x, Nil)>>

Copy(x, y) ==
  <<Op("fresh", x, y, Nil)>> \o Select(x) \o
  <<Op("copy", x, y, "config")>> \o
  [i \in 1..Cardinality(Crates) |-> Op("copy", x, y, SetToSeq(Crates)[i])] \o
  [i \in DOMAIN Lockfile |-> Op("copy", x, y, Lockfile[i])] \o
  <<Op("clone", x, y, Nil)>> \o Select(y) \o <<Op("closed", x, y, Nil)>>

(* The gate: the two copies of the tree, two copies of the Cargo home, Cargo's  *)
(* unpacking of the second, --finalize-cache, the change of owners, and    *)
(* --verify, --verify-tree and --verify-cache before a build.              *)
Trees == {"snapshot", "workspace"}
TreeOps(name) ==
  [i \in DOMAIN Files |-> Op(name, "source", "source", Files[i])] \o
  <<Op("seal", name, name, Nil)>>

(* What is prepared and thrown away, and what is built from.               *)
Rehearsal ==
  Copy("source", "authority") \o Copy("authority", "materialized") \o
  <<Op("unpack", "materialized", "materialized", Nil), Op("final", "final", "final", Nil)>> \o
  Select("authority") \o Select("authority") \o
  <<Op("registry", "authority", "materialized", Nil),
    Op("checkout", "authority", "materialized", Nil)>>

Finish ==
  <<Op("registry", "final", "final", Nil), Op("checkout", "final", "final", Nil),
    Op("seal", "final", "final", Nil), Op("chown", "final", "final", Nil),
    Op("verify", "final", "final", Nil), Op("verify", "snapshot", "snapshot", Nil),
    Op("verify", "workspace", "workspace", Nil)>>

Gate ==
  TreeOps("snapshot") \o TreeOps("workspace") \o Rehearsal \o
  Copy("authority", "final") \o Select("final") \o <<Op("construct", "final", "final", Nil)>> \o
  Select("final") \o Finish

Empty == [roots |-> Nil, archive |-> [p \in Locked |-> Nil], index |-> [c \in Crates |-> Nil],
          db |-> Nil, src |-> Nothing, checkout |-> Nil, strays |-> {},
          root |-> "700", owner |-> "user"]

At(name) == todo # << >> /\ Head(todo).op = name
X == home[Head(todo).from]
Y == home[Head(todo).to]
Into(y) == home' = [home EXCEPT ![Head(todo).to] = y]
Item == Head(todo).item

Go == todo' = Tail(todo) /\ verdict' = IF Len(todo) = 1 THEN "accepted" ELSE verdict
Refuse == todo' = << >> /\ verdict' = "rejected"
Only(good) == IF good THEN Go ELSE Refuse

(* A destination that is there already is refused.                         *)
Fresh ==
  /\ At("fresh")
  /\ Only(Y = Nil) /\ IF Y = Nil THEN Into(Empty) ELSE UNCHANGED home
  /\ copied' = Nothing
  /\ UNCHANGED <<lock, work, trees, selected, ledger, printed, edits>>

Begin ==
  /\ At("begin") /\ Go /\ selected' = Nothing
  /\ UNCHANGED <<lock, home, work, trees, copied, ledger, printed, edits>>

Chosen(key, data) == selected' = IF key \in DOMAIN selected THEN selected ELSE With(selected, key, data)
Selecting == UNCHANGED <<lock, home, work, trees, copied, ledger, printed, edits>>

(* The one index root whose configuration names crates.io.                 *)
CratesRoots(roots) == {r \in DOMAIN roots : roots[r] \in {"exact", "mentions crates.io"}}

SelectConfig ==
  /\ At("config") /\ Selecting
  /\ LET found == CratesRoots(X.roots) IN
     /\ Only(/\ X.roots # Nil /\ Cardinality(DOMAIN X.roots) <= MaxCacheEntries
             /\ Cardinality(found) = 1 /\ \A r \in found : X.roots[r] = "exact")
     /\ Chosen("config", {<<r, X.roots[r]>> : r \in found})

SelectArchive ==
  /\ At("archive") /\ Selecting
  /\ Only(X.archive[Item] = lock.archive[Item])
  /\ Chosen(Item, X.archive[Item])

SelectIndex ==
  /\ At("index") /\ Selecting
  /\ LET entry == X.index[CrateOf[Item]] IN
     /\ Only(entry # Nil /\ SparseEntryHolds(entry, Item))
     /\ Chosen(CrateOf[Item], entry)

SelectDatabase == At("database") /\ Selecting /\ Only(DatabaseHolds(X.db)) /\ UNCHANGED selected

(* copy_safe_cargo_cache: a file is read again, and must be what was       *)
(* selected.                                                               *)
FileIn(h, item) ==
  CASE item = "config" -> {<<r, h.roots[r]>> : r \in CratesRoots(h.roots)}
    [] item \in Locked -> h.archive[item]
    [] OTHER -> h.index[item]

WithFile(h, item, data) ==
  CASE item = "config" -> [h EXCEPT !.roots = [r \in {d[1] : d \in data} |-> "exact"]]
    [] item \in Locked -> [h EXCEPT !.archive[item] = data]
    [] OTHER -> [h EXCEPT !.index[item] = data]

CopyFile ==
  /\ At("copy")
  /\ LET data == FileIn(X, Item)
         same == data = selected[Item] /\ Cardinality(DOMAIN selected) <= MaxCacheFiles
     IN Only(same) /\ IF same THEN Into(WithFile(Y, Item, data)) /\ copied' = With(copied, Item, data)
                      ELSE UNCHANGED <<home, copied>>
  /\ UNCHANGED <<lock, work, trees, selected, ledger, printed, edits>>

(* copy_git_database: Git clones the objects, packed or not; configuration *)
(* and references are written anew.                                        *)
WrittenConfig ==
  << [key |-> "repositoryformatversion", value |-> "0"], [key |-> "filemode", value |-> "true"],
     [key |-> "bare", value |-> "true"], [key |-> "ignorecase", value |-> "true"],
     [key |-> "precomposeunicode", value |-> "true"] >>

Clone ==
  /\ At("clone")
  /\ \E objects \in {{[kind |-> "loose", id |-> 1]},
                     {[kind |-> "pack", id |-> 1], [kind |-> "idx", id |-> 1]}} :
       LET db == [config |-> WrittenConfig, head |-> "master", ref |-> "commit",
                  objects |-> objects, intact |-> X.db.intact]
       IN Only(DatabaseHolds(db)) /\ Into([Y EXCEPT !.db = db])
  /\ UNCHANGED <<lock, work, trees, selected, copied, ledger, printed, edits>>

Closed ==
  /\ At("closed") /\ Only(selected = copied)
  /\ UNCHANGED <<lock, home, work, trees, selected, copied, ledger, printed, edits>>

-----------------------------------------------------------------------------
Marked(nodes, data) == With(nodes, Marker, File(data, "644"))

(* A package as it is unpacked; nothing can be where a directory is.       *)
Package(p) ==
  LET unpacked == ArchiveEntries(lock.archive[p], p)
  IN IF unpacked = Nil THEN Nil
     ELSE IF DOMAIN unpacked.files \cap unpacked.dirs # {} THEN Nil
     ELSE Marked([path \in DOMAIN unpacked.files \cup unpacked.dirs |->
                    IF path \in unpacked.dirs THEN Node("dir", Nil, "755")
                    ELSE unpacked.files[path]], "{v:1}")

Checkout(listing, meta) ==
  LET files == TreeFiles(listing)
  IN [at |-> {"commit"}, tree |-> Marked(files, ""), meta |-> meta]

(* Cargo: what it makes of the packages and of the database.               *)
CargoUnpacks ==
  /\ At("unpack")
  /\ Only(\A p \in Locked : Package(p) # Nil)
  /\ \E meta \in MetaChoices :
       Into([Y EXCEPT !.src = [p \in {q \in Locked : Package(q) # Nil} |-> Package(p)],
                      !.checkout = Checkout(lock.tree, meta)])
  /\ UNCHANGED <<lock, work, trees, selected, copied, ledger, printed, edits>>

FinalIsFresh ==
  /\ At("final") /\ Only(Y = Nil)
  /\ UNCHANGED <<lock, home, work, trees, selected, copied, ledger, printed, edits>>

(* validate_registry_materialization.                                      *)
PackageHolds(nodes, archive, p) ==
  LET expected == ArchiveEntries(archive, p)
      actual == RegularTree(nodes)
  IN /\ archive = lock.archive[p] /\ expected # Nil /\ actual # Nil
     /\ Marker \in DOMAIN actual.files /\ actual.files[Marker] = File("{v:1}", "644")
     /\ Without(actual.files, Marker) = expected.files /\ actual.dirs = expected.dirs

ValidateRegistry ==
  /\ At("registry")
  /\ Only(/\ DOMAIN Y.src = Locked
          /\ \A p \in Locked : PackageHolds(Y.src[p], X.archive[p], p))
  /\ UNCHANGED <<lock, home, work, trees, selected, copied, ledger, printed, edits>>

(* validate_git_materialization; the directories of a checkout are not     *)
(* compared.                                                               *)
CheckoutHolds(checkout, database, constructed) ==
  /\ checkout.at = {"commit"}
  /\ LET actual == RegularTree(checkout.tree) IN
     /\ actual # Nil /\ Marker \in DOMAIN actual.files
     /\ actual.files[Marker] = File("", "644")
     /\ Without(actual.files, Marker) = TreeFiles(lock.tree)
  /\ MetadataHolds(checkout.meta, database, constructed)

ValidateCheckouts ==
  /\ At("checkout")
  /\ Only(/\ X.db.intact /\ Y.checkout # Nil
          /\ CheckoutHolds(Y.checkout, Head(todo).to, Head(todo).to = "final"))
  /\ UNCHANGED <<lock, home, work, trees, selected, copied, ledger, printed, edits>>

(* construct_final_sources: from the archives, and by Git without          *)
(* templates.                                                              *)
ConstructedMeta ==
  [config |-> << [key |-> "core.repositoryformatversion", value |-> "0"],
                 [key |-> "core.filemode", value |-> "true"],
                 [key |-> "core.bare", value |-> "false"],
                 [key |-> "remote.url", value |-> "final"],
                 [key |-> "remote.fetch", value |-> "heads to origin"] >>,
   head |-> "commit", master |-> "commit",
   modes |-> [name \in {"config", "HEAD", "index", "logs/HEAD", "refs/heads/master"} |-> "644"]]

Construct ==
  /\ At("construct")
  /\ LET good == \A p \in Locked : Package(p) # Nil IN
     /\ Only(good)
     /\ IF good THEN Into([Y EXCEPT !.src = [p \in Locked |-> Package(p)],
                                    !.checkout = Checkout(lock.tree, ConstructedMeta)])
        ELSE UNCHANGED home
  /\ UNCHANGED <<lock, work, trees, selected, copied, ledger, printed, edits>>

-----------------------------------------------------------------------------
(* copy_exact_snapshot takes a file if it is the reviewed one,             *)
(* copy_git_workspace_snapshot if it is, with its mode, the one of the     *)
(* commit; the first copy has its inventory in it.                         *)

CopyReviewed ==
  /\ At("snapshot")
  /\ Only(work[Item].data = "reviewed")
  /\ trees' = [trees EXCEPT !["snapshot"].files = With(@, Item, File(work[Item].data, "600")),
                          !["snapshot"].inventory = With(@, Item, work[Item].data)]
  /\ UNCHANGED <<lock, home, work, selected, copied, ledger, printed, edits>>

CopyWorkspace ==
  /\ At("workspace")
  /\ Only(work[Item] = File("reviewed", "644"))
  /\ trees' = [trees EXCEPT !["workspace"].files = With(@, Item, work[Item])]
  /\ UNCHANGED <<lock, home, work, selected, copied, ledger, printed, edits>>

(* normalize_read_only.                                                    *)
ReadOnly(nodes) ==
  [path \in DOMAIN nodes |->
     [nodes[path] EXCEPT !.mode = IF nodes[path].kind = "dir" \/ @ \in {"755", "555"}
                                  THEN "555" ELSE "444"]]

LockedTree(t) == [t EXCEPT !.files = ReadOnly(@)]
LockedHome(h) ==
  [h EXCEPT !.src = [p \in DOMAIN @ |-> ReadOnly(@[p])], !.checkout.tree = ReadOnly(@),
            !.checkout.meta.modes = [name \in DOMAIN @ |-> "444"], !.root = "555"]

Content(name) == IF name = "final" THEN home.final ELSE trees[name]

(* cache_tree_records: all that is there, links refused; who owns it is    *)
(* not in it.                                                              *)
Unlinked(nodes) == \A path \in DOMAIN nodes : nodes[path].kind = "dir" \/
                     (nodes[path].kind = "file" /\ nodes[path].links = 1)
Recordable(name) ==
  IF name = "final"
  THEN /\ \A p \in DOMAIN home.final.src : Unlinked(home.final.src[p])
       /\ Unlinked(home.final.checkout.tree)
  ELSE Unlinked(trees[name].files)
Records(c) == [c EXCEPT !.owner = Nil]

(* require_materialized_source_closure, and no credentials.                *)
Closure(name) ==
  name = "final" => /\ home.final.src # Nothing /\ home.final.checkout # Nil
                    /\ home.final.strays \cap Credentials = {}

(* seal_cache_state and seal_tree.                                         *)
Seal ==
  /\ At("seal")
  /\ LET name == Head(todo).to
         good == ledger[name] = Nil /\ Closure(name) /\ Recordable(name)
     IN /\ Only(good)
        /\ IF ~good THEN UNCHANGED <<home, trees, ledger, printed>>
           ELSE LET c == IF name = "final" THEN LockedHome(home.final) ELSE LockedTree(trees[name])
                IN /\ home' = IF name = "final" THEN [home EXCEPT !.final = c] ELSE home
                   /\ trees' = IF name = "final" THEN trees ELSE [trees EXCEPT ![name] = c]
                   /\ ledger' = [ledger EXCEPT ![name] =
                                   [records |-> Records(c), mode |-> "600", owner |-> "user"]]
                   /\ printed' = [printed EXCEPT ![name] = Records(c)]
  /\ UNCHANGED <<lock, work, selected, copied, edits>>

(* The gate gives all that is sealed, and the authority files, to root.    *)
Sealed == {"final"} \cup Trees
Chown ==
  /\ At("chown") /\ Go
  /\ home' = [home EXCEPT !.final.owner = "root"]
  /\ trees' = [name \in Trees |-> [trees[name] EXCEPT !.owner = "root"]]
  /\ ledger' = [name \in Sealed |-> [ledger[name] EXCEPT !.owner = "root", !.mode = "444"]]
  /\ UNCHANGED <<lock, work, selected, copied, printed, edits>>

(* Slip: an authority file is taken as it is. *)
TrustAuthority(name) == ledger[name].records

(* parse_cache_authority: only with the digest that was printed.           *)
ParseAuthority(name) == IF ledger[name].records = printed[name] THEN ledger[name].records ELSE Nil

(* verify_inventory: the names are the reviewed ones, the digests those of *)
(* the inventory, which is in the snapshot itself.                         *)
InventoryHolds(t) ==
  /\ DOMAIN t.inventory = Range(Files) /\ DOMAIN t.files = Range(Files)
  /\ \A f \in Range(Files) : t.files[f].data = t.inventory[f]

(* verify_cache_state and verify_tree; verify_owner.                       *)
Verify ==
  /\ At("verify")
  /\ LET name == Head(todo).to
         expected == ParseAuthority(name)
     IN Only(/\ expected # Nil /\ Closure(name) /\ Recordable(name)
             /\ Records(Content(name)) = expected
             /\ name = "snapshot" => InventoryHolds(trees["snapshot"])
             /\ Content(name).owner # Builder /\ ledger[name].owner # Builder
             /\ ledger[name].mode = "444")
  /\ UNCHANGED <<lock, home, work, trees, selected, copied, ledger, printed, edits>>

-----------------------------------------------------------------------------
(* What others do to the files meanwhile, as the tests of the script do:   *)
(* the homes Cargo uses at any time, what is made for the build once it is *)
(* sealed and not yet root's.                                              *)
Editing ==
  /\ todo # << >> /\ edits > 0 /\ edits' = edits - 1
  /\ UNCHANGED <<lock, selected, copied, printed, todo, verdict>>

EditHome(x, h) ==
  Editing /\ h # home[x] /\ home' = [home EXCEPT ![x] = h] /\ UNCHANGED <<work, trees, ledger>>
Sources == {x \in Homes \ {"final"} : home[x] # Nil}

EditRoots ==
  \E x \in Sources, roots \in RootChoices : EditHome(x, [home[x] EXCEPT !.roots = roots])
EditArchive ==
  \E x \in Sources, p \in Locked, a \in ArchiveChoices :
    EditHome(x, [home[x] EXCEPT !.archive[p] = a])
EditIndex ==
  \E x \in Sources, c \in Crates, e \in IndexChoices :
    EditHome(x, [home[x] EXCEPT !.index[c] = e])
EditDatabase ==
  \E x \in Sources, db \in DatabaseChoices : EditHome(x, [home[x] EXCEPT !.db = db])

EditWork ==
  /\ Editing
  /\ \E f \in Range(Files), data \in {"reviewed", "other"}, mode \in {"644", "755"} :
       work[f] # File(data, mode) /\ work' = [work EXCEPT ![f] = File(data, mode)]
  /\ UNCHANGED <<home, trees, ledger>>

Made ==
  {x \in Homes : /\ home[x] # Nil /\ home[x].src # Nothing /\ home[x].checkout # Nil
                 /\ \/ x = "materialized"
                    \/ x = "final" /\ ledger.final # Nil /\ home.final.owner = "user"}

EditPackage ==
  \E x \in Made, p \in Locked, e \in NodeEdits :
    EditHome(x, [home[x] EXCEPT !.src[p] = With(@, e.path, e.node)])
AddPackage == \E x \in Made : EditHome(x, [home[x] EXCEPT !.src = With(@, "extra", Nothing)])
EditCheckout ==
  \E x \in Made, e \in NodeEdits :
    EditHome(x, [home[x] EXCEPT !.checkout.tree = With(@, e.path, e.node)])
EditMetadata ==
  \E x \in Made, meta \in MetaChoices : EditHome(x, [home[x] EXCEPT !.checkout.meta = meta])
AddCredential ==
  \E x \in Made, name \in Credentials : EditHome(x, [home[x] EXCEPT !.strays = @ \cup {name}])
OpenHome == \E x \in Made : EditHome(x, [home[x] EXCEPT !.root = "700"])

EditTree ==
  /\ Editing
  /\ \E name \in Trees, e \in NodeEdits :
       /\ ledger[name] # Nil /\ trees[name].owner = "user"
       /\ trees' = [trees EXCEPT ![name].files = With(@, Files[1], e.node)]
  /\ UNCHANGED <<home, work, ledger>>

(* The authority file is made to fit again, as often as that takes.        *)
EditLedger ==
  /\ todo # << >>
  /\ \E name \in Sealed :
       /\ ledger[name] # Nil /\ ledger[name].owner = "user"
       /\ ledger[name].records # Records(Content(name))
       /\ ledger' = [ledger EXCEPT ![name].records = Records(Content(name))]
  /\ UNCHANGED <<lock, home, work, trees, selected, copied, printed, todo, edits, verdict>>

(* A home that Cargo keeps in order, until somebody edits it.              *)
SnapshotInit ==
  /\ lock \in Locks
  /\ LET kept == [Empty EXCEPT !.roots = KeptRoots, !.archive = lock.archive,
                               !.index = [c \in Crates |-> lock.entry], !.db = KeptDatabase]
     IN home = [x \in Homes |-> IF x = "source" THEN kept ELSE Nil]
  /\ work = [f \in Range(Files) |-> File("reviewed", "644")]
  /\ trees = [name \in Trees |-> [files |-> Nothing, inventory |-> Nothing, owner |-> "user"]]
  /\ selected = Nothing /\ copied = Nothing
  /\ ledger = [name \in Sealed |-> Nil] /\ printed = ledger
  /\ todo = Gate /\ edits = Edits /\ verdict = "none"

Script ==
  \/ CopyReviewed \/ CopyWorkspace \/ Fresh \/ Begin \/ SelectConfig \/ SelectArchive
  \/ SelectIndex \/ SelectDatabase \/ CopyFile \/ Clone \/ Closed \/ CargoUnpacks \/ FinalIsFresh
  \/ ValidateRegistry \/ ValidateCheckouts \/ Construct \/ Seal \/ Chown \/ Verify

Others ==
  \/ EditRoots \/ EditArchive \/ EditIndex \/ EditDatabase \/ EditWork
  \/ EditPackage \/ AddPackage \/ EditCheckout \/ EditMetadata \/ AddCredential \/ OpenHome
  \/ EditTree \/ EditLedger

SnapshotNext == Script \/ Others
SnapshotSpec == SnapshotInit /\ [][SnapshotNext]_snapshotVars

-----------------------------------------------------------------------------
(* What a build may see: each package is the members of the archive the    *)
(* lock names, each checkout the listing of its commit, each tree the      *)
(* reviewed files, all read-only, unlinked and not the builder's, and no   *)
(* path leads out of its directory.                                        *)
IsArchive(nodes, archive) ==
  LET files == {path \in DOMAIN nodes : nodes[path].kind = "file"} \ {Marker}
  IN /\ \A path \in files : \E m \in Range(archive) :
          m.kind = "file" /\ Tail(m.path) = path /\ m.data = nodes[path].data
     /\ \A m \in Range(archive) : m.kind = "file" => Tail(m.path) \in files

IsListing(nodes, listing) ==
  {<<path, nodes[path].data>> : path \in DOMAIN nodes \ {Marker}}
    = {<<entry.path, entry.data>> : entry \in Range(listing)}

Inside(nodes) == \A path \in DOMAIN nodes : \A i \in DOMAIN path : SafePart(path[i])
OnlyRead(nodes) == \A path \in DOMAIN nodes : nodes[path].mode \in {"444", "555"} /\ nodes[path].links = 1

(* --finalize-cache and --verify: whatever others do to the Cargo homes    *)
(* while they are copied and unpacked, and to what was made for the build  *)
(* and its authority files until they are root's, an accepted gate builds  *)
(* the sources the lock and the reviewed digests name and nothing else.    *)
OnlyLockedIsBuilt ==
  verdict = "accepted" =>
    /\ DOMAIN home.final.src = Locked
    /\ \A p \in Locked : /\ IsArchive(home.final.src[p], lock.archive[p])
                          /\ Inside(home.final.src[p]) /\ OnlyRead(home.final.src[p])
    /\ IsListing(home.final.checkout.tree, lock.tree)
    /\ Inside(home.final.checkout.tree) /\ OnlyRead(home.final.checkout.tree)
    /\ DOMAIN home.final.checkout.meta.modes \cap Hooks = {}
    /\ home.final.strays = {}
    /\ \A name \in Trees, f \in Range(Files) :
         trees[name].files[f].data = "reviewed" /\ trees[name].files[f].mode = "444"
    /\ \A name \in Sealed : Content(name).owner = "root"
=============================================================================
