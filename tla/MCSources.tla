------------------------------ MODULE MCSources ------------------------------
(* The two gates over what an author edits: the corpora, and the source.     *)
EXTENDS MCCorpus, MCPlanSurface

SurfaceIdle ==
  /\ crate = << >> /\ linked = {} /\ manifest = {} /\ authority = << >> /\ pins = << >>
  /\ drafts = 0 /\ surface = "idle"
CorporaIdle ==
  /\ recipe = None /\ rows = << >> /\ cases = {} /\ touches = 0
  /\ kind = None /\ parent = None /\ now = None /\ row = None /\ edits = 0

SourcesInit ==
  \/ CorporaInit /\ SurfaceIdle
  \/ CorporaIdle /\ SurfaceInit
SourcesNext ==
  \/ surface = "idle" /\ CorporaNext /\ UNCHANGED surfaceVars
  \/ surface # "idle" /\ SurfaceNext /\ UNCHANGED <<corpusVars, factsVars>>
=============================================================================
