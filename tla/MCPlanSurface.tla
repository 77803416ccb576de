---------------------------- MODULE MCPlanSurface ----------------------------
(* A crate of three files, one of them its tests, and a crate it relies on. *)
EXTENDS PlanSurface, SurfaceDrafts

MCReviewedCrate ==
  [lib |-> << <<"#![", "forbid", "]">>,
              <<"use", "dep", "::", "Item", ";">>,
              <<"mod", "reader", ";">>,
              <<"#[", "cfg(test)", "]">>,
              <<"thread_local", "!", "{", "static", "CELL", ":", "std", "::", "cell", ";", "}">>,
              <<"#[", "derive", "]">>,
              <<"pub", "enum", "Error", "{", "Bad", "}">>,
              <<"impl", "Clone", "for", "Error", "{", "}">>,
              <<"pub", "fn", "api", "(">>,
              <<")", "{", "Item", "::", "new", "(", ")", ".", "take", ";", "}">> >>,
   reader |-> << <<"pub", "(crate)", "struct", "Reader", ";">> >>,
   tests |-> << <<"mod", "conformance", ";">> >>]
MCReviewedAuthority ==
  << <<"pub", "struct", "Item", ";">>,
     <<"impl", "Item", "{", "pub", "fn", "new", "(", ")", "{", "make", "(", ")", ";", "}">>,
     <<"}">>,
     <<"fn", "make", "(", ")", "{", "}">> >>
MCReviewedManifest == {"package", "lib", "dependencies", "dev-dependencies"}
MCProduction == <<"lib", "reader">>
MCForbidden == {<<"include", "!">>, <<"macro_rules", "!">>}
MCCalls == {<<"Item", "::", "new", "(">>, <<"make", "(", ")">>}
MCPinnedItems == {<<"impl", "Item">>, <<"struct", "Item">>}
MCEnumMarker == <<"pub", "enum", "Error", "{">>
MCBodyMarker == <<"pub", "fn", "api", "(">>
MCRegionStart == <<"impl", "Clone", "for", "Error", "{">>
MCThreadLocal == <<"#[", "cfg(test)", "]", EOL, "thread_local", "!", "{">>

MCFirstLines == [lib |-> CrateLines, authority |-> AuthorityLines]
MCLaterLines == [lib |-> Delimiters, authority |-> AuthorityLines]
MCSymbols ==
  UNION {Range(line) : line \in Range(MCReviewedCrate.lib) \cup Range(MCReviewedAuthority)
                               \cup CrateLines \cup AuthorityLines \cup Delimiters}
=============================================================================
