-------------------------- MODULE MCProofSnapshot --------------------------
(* Small Cargo homes: one crate in two locked versions, one Git source,    *)
(* each good, or with one of the defects the code looks for.               *)
EXTENDS ProofSnapshot

MCLockfile == <<"0.14", "1.2">>
MCCrateOf == [p \in {"0.14", "1.2"} |-> "hashes"]

M(kind, path, data, exec) == [kind |-> kind, path |-> path, data |-> data, exec |-> exec]
OldArchive == << M("dir", <<"0.14">>, Nil, FALSE), M("file", <<"0.14", "src", "lib">>, "old", FALSE) >>
NewArchive == << M("file", <<"1.2", "build">>, "script", TRUE), M("dir", <<"1.2", "src">>, Nil, FALSE),
                 M("file", <<"1.2", "src", "lib">>, "new", FALSE) >>
(* Leads out of the package; a file where a directory is.                  *)
Escaping == << M("file", <<"1.2", "..", "escape">>, "body", FALSE) >>
Nested == << M("file", <<"1.2", "src">>, "body", FALSE), M("file", <<"1.2", "src", "lib">>, "new", FALSE) >>

Entry(mode, path) == [mode |-> mode, type |-> "blob", path |-> path, data |-> "blob"]
GoodTree == << Entry("100644", <<"regular">>), Entry("100755", <<"tools", "run">>) >>
LinkedTree == << Entry("100644", <<"regular">>), Entry("120000", <<"link">>) >>

Record(p, archive, rest) == [vers |-> p, name |-> "hashes", cksum |-> archive, rest |-> rest]
Field(record) == [version |-> record.vers, record |-> record]
Index(new, more) ==
  [known |-> TRUE,
   fields |-> << Field(Record("0.14", OldArchive, "deps")), Field(Record("1.2", new, "deps")) >> \o more]
Lock(new, tree) ==
  [archive |-> [p \in {"0.14", "1.2"} |-> IF p = "1.2" THEN new ELSE OldArchive],
   record |-> [p \in {"0.14", "1.2"} |-> Record(p, IF p = "1.2" THEN new ELSE OldArchive, "deps")],
   tree |-> tree, entry |-> Index(new, << >>)]
MCLocks == {Lock(NewArchive, GoodTree), Lock(Escaping, GoodTree), Lock(Nested, GoodTree),
            Lock(NewArchive, LinkedTree)}

MCKeptRoots == [r \in {"crates"} |-> "exact"]
MCRootChoices == { MCKeptRoots, [r \in {"crates"} |-> "mentions crates.io"],
                   [r \in {"crates", "mirror"} |-> IF r = "crates" THEN "exact" ELSE "other"],
                   [r \in {"a", "b"} |-> "exact"] }
MCArchiveChoices == {NewArchive, OldArchive}

MCIndexChoices ==
  { Index(NewArchive, << Field(Record("2.0", OldArchive, "deps")) >>),
    Index(NewArchive, << Field(Record("1.2", NewArchive, "features")) >>) }

Line(key, value) == [key |-> key, value |-> value]
Bare == << Line("bare", "true"), Line("repositoryformatversion", "0"), Line("filemode", "false") >>
Loose == {[kind |-> "loose", id |-> 1]}
Database(config, objects, intact) ==
  [config |-> config, head |-> "master", ref |-> "commit", objects |-> objects, intact |-> intact]
MCKeptDatabase == Database(Bare, Loose, TRUE)
MCDatabaseChoices ==
  { MCKeptDatabase, Database(Bare, Loose, FALSE),
    Database(Append(Bare, Line("hookspath", "true")), Loose, TRUE),
    Database(Bare, Loose \cup {[kind |-> "rev", id |-> 1]}, TRUE) }

MCNodeEdits ==
  { [path |-> <<"src", "lib">>, node |-> File("altered", "644")],
    [path |-> <<"regular">>, node |-> [File("blob", "644") EXCEPT !.links = 2]],
    [path |-> <<"extra">>, node |-> Node("link", "outside", "777")] }

CheckoutConfig(more) ==
  << Line("core.repositoryformatversion", "0"), Line("core.filemode", "true"), Line("core.bare", "false"),
     Line("remote.url", "materialized"), Line("remote.fetch", "heads to origin") >> \o more
Meta(more, hook) ==
  [config |-> CheckoutConfig(more), head |-> "master", master |-> "commit",
   modes |-> [name \in {"config", "HEAD", "index", "description", "hooks/commit.sample"} |->
                IF name = "hooks/commit.sample" THEN hook ELSE "644"]]
MCMetaChoices ==
  {Meta(<<Line("core.ignorecase", "true")>>, "755"), Meta(<< >>, "600"),
   Meta(<<Line("core.autocrlf", "input")>>, "755"), Meta(<<Line("core.hookspath", "/tmp")>>, "755")}
MCCredentials == {"config.toml"}
MCFiles == <<"main.rs">>
=============================================================================
