---------------------------- MODULE SurfaceDrafts ----------------------------
(***************************************************************************)
(* What an author may write into the crate ordinary-wallet-plan and into   *)
(* one it relies on: a line of each sort that the mutations of             *)
(* test-ordinary-wallet-plan-surface.py are of, some with a comment between *)
(* two words, and the delimiters a change may put around what was reviewed. *)
(***************************************************************************)
EXTENDS Sequences

\* Comments, one in another, and literals that look like comments.
Nested == <<"/*", "/*", "quote", "*/", "*/", "quote", "/*", "escaped quote", "quote">>
Delimiters == { <<"/*">>, <<"*/">>, <<"quote">> }

Copies == { <<"fn", "copy", "(", ")", "{", "}">> }
Accessors == { <<"pub", "fn", "extra", "(", ")", "{", "}">>,
               <<";", "pub", "fn", "extra", "(", ")", "{", "}">> }
Derives == { <<"#[", "derive", "]">> }
Visibilities == { <<"pub", "(crate)", "fn", "extra", "(", ")", "{", "}">>, <<"//", "pub">> }
Disclosures == { <<"print", "!", "(", "Item", ")", ";">> }
Linkage == { <<"unsafe", "extern", "{", "}">> }
StdPaths == { <<"std", "/*", "*/", "::", "env", ";">>, <<"use", "{", "std", "}", ";">> }
Statics == { <<"static", "CELL", ";">>, <<"static", "/*", "*/", "LEAK", ";">>,
             <<"static", " ", "/*", "*/", " ", "LEAK", ";">> }
InertStatics == { <<"quote", "static", "quote", ";">>,
                  <<"raw quote", "static", "escaped quote", ";">> }
Capabilities == { <<"fn", "leak", "(", "Item", ")", "{", "}">> }
Signers == { <<"Item", ".", "take", ";">> }
RootPaths == { <<"dep", "::", "Other", ";">>, <<"use", "/*", "*/", "dep", "::", "Other", ";">>,
               <<"use", " ", "/*", "*/", "dep", "::", "Other", ";">> }
Reexports == { <<"pub", "use", "dep", "::", "Item", ";">> }
Includes == { <<"include", "/*", "*/", "!", "(", "stray", ")", ";">>,
              <<"include", " ", "/*", "*/", "!", "(", "stray", ")", ";">> }
OwnerImpls == { <<"impl", "Drop", "for", "Error", "{", "}">> }
OutsideModules == { <<"mod", "stray", ";">> }

\* Apostrophes, of a lifetime and of a character.
Lifetimes == { <<"fn", "life", "<", "'", "static", ">", "(", ")", "{", "}">> }
Characters == { <<"'", "quote", "'", ";">>, <<"'", "T", "'", ";">> }

Methods == { <<"fn", "extra", "(", ")", "{", "}">> }
Bypasses == { <<"make", "(", ")", ";">> }
FurtherImpls == { <<"impl", "Item", "{", "}">>,
                  <<"impl", "<", "T", ">", "Item", "{", "fn", "extra", "(", ")", "{", "}", "}">> }

CrateLines ==
  UNION {{Nested}, Delimiters, Copies, Accessors, Derives, Visibilities, Disclosures, Linkage,
         StdPaths, Statics, InertStatics, Capabilities, Signers, RootPaths, Reexports, Includes,
         OwnerImpls, OutsideModules, Lifetimes, Characters}
AuthorityLines == UNION {{Nested}, Delimiters, Lifetimes, Characters, Methods, Bypasses, FurtherImpls}
=============================================================================
