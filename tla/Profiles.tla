-------------------------------- MODULE Profiles --------------------------------
(***************************************************************************)
(* ProfileStore (memory/user_profile.py) and the tool that saves what the  *)
(* agent learns (tool/preference_tool.py): merge_preferences reads the     *)
(* row, merges in memory and writes the whole profile back, in separate    *)
(* transactions.  Of its fields: a list, a scalar the UPDATE coalesces     *)
(* with the row's, and the one scalar it does not.                         *)
(***************************************************************************)
EXTENDS Naturals, FiniteSets

CONSTANTS Proc, Brand, Budget, Text, None,
          Saved,      \* the dictionaries of preferences that are saved: some Profiles
          MaxMerges   \* bound: merges begun

VARIABLES
  row,        \* user_profiles of one user: [brands, budget, notes] or None
  merge,      \* what each process has merged and is about to write
  begun,      \* merges begun
  kept        \* history: the preferences no overlapping merge and no deletion has lost

vars == <<row, merge, begun, kept>>

Profile == [brands : SUBSET Brand, budget : Budget \cup {None}, notes : Text \cup {None}]
Empty   == [brands |-> {}, budget |-> None, notes |-> None]   \* no notes: ""
Idle    == [at |-> "idle"]

Init ==
  /\ row = None /\ kept = Empty /\ begun = 0
  /\ merge = [p \in Proc |-> Idle]

GetProfile     == IF row = None THEN Empty ELSE row
Coalesce(v, w) == IF v # None THEN v ELSE w

\* The merge of lists drops duplicates and keeps the rest; a scalar is overwritten.
Merged_ListsReplaced(old, new) ==
  [brands |-> IF new.brands # {} THEN new.brands ELSE old.brands,
   budget |-> Coalesce(new.budget, old.budget),
   notes  |-> Coalesce(new.notes, old.notes)]
Merged(old, new) ==
  [brands |-> old.brands \cup new.brands,
   budget |-> Coalesce(new.budget, old.budget),
   notes  |-> Coalesce(new.notes, old.notes)]

\* merge_preferences up to the upsert: a dictionary of empty values is merged
\* and written all the same.
ReadAndMerge(p, new) ==
  /\ merge[p] = Idle /\ begun < MaxMerges
  /\ begun' = begun + 1
  /\ merge' = [merge EXCEPT ![p] =
       [at |-> "write", new |-> new, read |-> GetProfile, profile |-> Merged(GetProfile, new)]]
  /\ UNCHANGED <<row, kept>>

\* ON CONFLICT DO UPDATE: the row's scalar stays where the profile has none, but for notes.
Upserted(profile) == [profile EXCEPT !.budget = Coalesce(@, GetProfile.budget)]

\* What is left of the kept preferences when merge m writes: what it had read.  A value
\* that others saved since then is lost, unless this merge writes none (COALESCE).
Left(m) ==
  [brands |-> kept.brands \cap m.read.brands,
   budget |-> IF m.read.budget \in {kept.budget, None} THEN kept.budget ELSE None,
   notes  |-> IF m.read.notes = kept.notes THEN kept.notes ELSE None]

UpsertProfile(p) ==
  /\ merge[p].at = "write"
  /\ row' = Upserted(merge[p].profile)
  /\ kept' = [brands |-> Left(merge[p]).brands \cup merge[p].new.brands,
              budget |-> Coalesce(merge[p].new.budget, Left(merge[p]).budget),
              notes  |-> Coalesce(merge[p].new.notes, Left(merge[p]).notes)]
  /\ merge' = [merge EXCEPT ![p] = Idle]
  /\ UNCHANGED begun

\* An error of SQLite, or the death of the process.
FailMerge(p) ==
  /\ merge[p] # Idle
  /\ merge' = [merge EXCEPT ![p] = Idle]
  /\ UNCHANGED <<row, begun, kept>>

\* delete_profile: a merge under way writes what it has read.
DeleteProfile ==
  /\ row' = None /\ kept' = Empty
  /\ UNCHANGED <<merge, begun>>

Next ==
  \/ DeleteProfile
  \/ \E p \in Proc : \/ UpsertProfile(p) \/ FailMerge(p)
                     \/ \E new \in Saved : ReadAndMerge(p, new)

Spec == Init /\ [][Next]_vars

-----------------------------------------------------------------------------
\* A preference saved for the user stays in the profile, and a scalar with the value saved
\* last, until the profile is deleted or a merge writes that had read the profile before.
PreferencesAreKept ==
  /\ kept.brands \subseteq GetProfile.brands
  /\ kept.budget # None => GetProfile.budget = kept.budget
  /\ kept.notes # None => GetProfile.notes = kept.notes
=============================================================================
