-------------------------------- MODULE Catalog -------------------------------
(***************************************************************************)
(* What the artifact store promises to whoever reads it: contents are kept *)
(* for ever, and a catalogue of them only grows, one entry at a time, which*)
(* numbers the entries of a name by counting them.  No temporary files,    *)
(* modes, processes, crashes or repeated calls.  ArtifactStore implements  *)
(* it.                                                                     *)
(***************************************************************************)
EXTENDS Naturals, FiniteSets

CONSTANTS Files, NameOf, Contents

VARIABLES kept, entries

catalog == <<kept, entries>>

CatalogInit == kept = {} /\ entries = {}

Keep(c) ==
  /\ kept' = kept \cup {c}
  /\ UNCHANGED entries

Of(name) == {e \in entries : NameOf[e.file] = name}

\* Only a content that is kept is entered, and once for a file.
Enter(f, c) ==
  /\ c \in kept
  /\ ~ \E e \in entries : e.file = f /\ e.digest = c
  /\ entries' = entries \cup
       {[file |-> f, digest |-> c, version |-> Cardinality(Of(NameOf[f])) + 1]}
  /\ UNCHANGED kept

CatalogNext ==
  \/ \E c \in Contents : Keep(c)
  \/ \E f \in Files, c \in Contents : Enter(f, c)

CatalogSpec == CatalogInit /\ [][CatalogNext]_catalog

=============================================================================
