----------------------------- MODULE SkillCatalog -----------------------------
(***************************************************************************)
(* What the catalog of a skill pool promises to whoever reads it: it        *)
(* changes by whole batches of saved records, each of which replaces what  *)
(* the same skill had before and nothing newer, and leaves every other     *)
(* object as it was.                                                       *)
(***************************************************************************)
EXTENDS Integers

CONSTANTS
  Names, Versions, Chunks    \* skills, their contents, chunk sizes

VARIABLES
  retain,      \* configuration: versions of a skill are kept side by side
  saved,       \* the records saved so far
  published    \* the objects of the catalog

catalogVars == <<retain, saved, published>>

\* Who an object belongs to: one object of an owner is published at a time.
Owner(r) == IF retain THEN <<r.name, r.version>> ELSE <<r.name>>

Owners(records) == {Owner(r) : r \in records}

SkillRecord(r) == r.name \in Names /\ r.version \in Versions /\ r.chunk \in Chunks

CatalogInit == retain \in BOOLEAN /\ saved = {} /\ published = {}

Save(r) ==
  /\ SkillRecord(r)
  /\ \A s \in saved : s.n < r.n
  /\ saved' = saved \cup {r}
  /\ UNCHANGED <<retain, published>>

\* An object is a saved record, active until it is invalidated.
Publish(batch) ==
  /\ batch # {}
  /\ \A r, s \in batch : Owner(r) = Owner(s) => r = s
  /\ \A r \in batch, o \in published : Owner(o) = Owner(r) => o.n <= r.n
  /\ published' = {o \in published : Owner(o) \notin Owners(batch)} \cup
                    {[name |-> r.name, version |-> r.version, chunk |-> r.chunk,
                      n |-> r.n, active |-> TRUE] : r \in batch}
  /\ UNCHANGED <<retain, saved>>

\* One object is authenticated with other chunks, or becomes invalid.
Amend(o, p) ==
  /\ p \in {[o EXCEPT !.chunk = c] : c \in Chunks} \cup {[o EXCEPT !.active = FALSE]}
  /\ published' = (published \ {o}) \cup {p}
  /\ UNCHANGED <<retain, saved>>

CatalogNext ==
  \/ \E r \in saved' : Save(r)
  \/ \E batch \in SUBSET saved : Publish(batch)
  \/ \E o \in published : \E p \in published' : Amend(o, p)

CatalogSpec == CatalogInit /\ [][CatalogNext]_catalogVars
==============================================================================
