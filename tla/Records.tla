------------------------------- MODULE Records -------------------------------
(***************************************************************************)
(* The record operations of `Keystore` (vaults-bridge-keystore/src/lib.rs) *)
(* as functions on the sequence of credential records.  Ids and passwords  *)
(* are numbers drawn from one counter: a new UUID or a newly typed or      *)
(* generated password is a number nobody used before, so a larger password *)
(* is a later one.  The colour stands for the record's metadata (label,    *)
(* notes, timestamps behave alike).                                        *)
(***************************************************************************)
EXTENDS Naturals, Sequences

CONSTANTS Origins, Usernames, CARD_COLOR_COUNT

ASSUME RecordsAssumption == CARD_COLOR_COUNT \in Nat \ {0}

FIRST_AUTOMATIC_COLOR == 5

CredentialRecord == [id : Nat, origin : Origins, username : Usernames, password : Nat,
                     archived : BOOLEAN, color : Nat]

Policies == {"Skip", "Replace", "KeepBoth"}

Ids(recs) == {recs[i].id : i \in DOMAIN recs}

(* Vec::position / iter().find: the first index that satisfies, 0 for None.*)
First(S) == IF S = {} THEN 0 ELSE CHOOSE i \in S : \A j \in S : i <= j

PosOfLogin(recs, o, u) ==
  First({i \in DOMAIN recs : recs[i].origin = o /\ recs[i].username = u})

PosOfId(recs, id) == First({i \in DOMAIN recs : recs[i].id = id})

NextAutomaticColor(recs) == (FIRST_AUTOMATIC_COLOR + Len(recs)) % CARD_COLOR_COUNT

(* Mutant: the two string arguments are swapped.                           *)
NewRecordSwapped(recs, id, o, u, p) ==
  [id |-> id, origin |-> u, username |-> o, password |-> p, archived |-> FALSE,
   color |-> NextAutomaticColor(recs)]

(* CredentialRecord::new followed by the automatic colour.                 *)
NewRecord(recs, id, o, u, p) ==
  [id |-> id, origin |-> o, username |-> u, password |-> p, archived |-> FALSE,
   color |-> NextAutomaticColor(recs)]

(* edit, set_archived, set_color: the record with this id; the caller      *)
(* handles NotFound (position 0).                                          *)
Edit(recs, i, u, p, c) ==
  [recs EXCEPT ![i] = [@ EXCEPT !.username = u, !.password = p, !.color = c]]

SetArchived(recs, id, a) ==
  IF PosOfId(recs, id) = 0 THEN recs
  ELSE [recs EXCEPT ![PosOfId(recs, id)] = [@ EXCEPT !.archived = a]]

SetColor(recs, i, c) == [recs EXCEPT ![i] = [@ EXCEPT !.color = c]]

(* Mutant: the archived check of delete_forever is dropped.                *)
MayDeleteAny(recs, i) == i # 0

MayDelete(recs, i) == i # 0 /\ recs[i].archived

(* Vec::remove.                                                            *)
RemovePos(recs, i) ==
  [j \in 1..(Len(recs) - 1) |-> IF j < i THEN recs[j] ELSE recs[j + 1]]

(* probe: the first record of the login, archived or not.                  *)
Probe(recs, o, u) ==
  LET i == PosOfLogin(recs, o, u)
  IN IF i = 0 THEN "None" ELSE IF recs[i].archived THEN "Archived" ELSE "Live"

(* Mutant: upsert leaves an archived record archived.                      *)
UpsertKeepArchived(recs, o, u, p, id) ==
  LET i == PosOfLogin(recs, o, u)
  IN IF i = 0 THEN Append(recs, NewRecord(recs, id, o, u, p))
     ELSE [recs EXCEPT ![i] = [@ EXCEPT !.password = p]]

(* upsert: the first record of the login is updated in place and taken out *)
(* of the archive; without one a new record is pushed.                     *)
Upsert(recs, o, u, p, id) ==
  LET i == PosOfLogin(recs, o, u)
  IN IF i = 0 THEN Append(recs, NewRecord(recs, id, o, u, p))
     ELSE [recs EXCEPT ![i] = [@ EXCEPT !.password = p, !.archived = FALSE]]

(* find_by_origin, then the engine's `find(|r| r.username == hint)`: the   *)
(* first live record of the login.                                         *)
PosOfLive(recs, o, u) ==
  First({i \in DOMAIN recs : /\ recs[i].origin = o /\ recs[i].username = u
                             /\ ~recs[i].archived})

LivePositions(recs, o) == {i \in DOMAIN recs : recs[i].origin = o /\ ~recs[i].archived}

(* Mutant: Keep both falls into the Replace arm.                           *)
ImportItemClobber(recs, item, policy, id) ==
  LET i == PosOfLogin(recs, item.origin, item.username)
  IN IF i = 0
     THEN Append(recs, NewRecord(recs, id, item.origin, item.username, item.password))
     ELSE IF policy = "Skip" THEN recs
     ELSE [recs EXCEPT ![i] = [@ EXCEPT !.password = item.password, !.archived = FALSE]]

(* One round of import_many's loop: item is a parsed CSV row, id the id of *)
(* the record it may become.                                               *)
ImportItem(recs, item, policy, id) ==
  LET i == PosOfLogin(recs, item.origin, item.username)
  IN IF i = 0 \/ policy = "KeepBoth"
     THEN Append(recs, NewRecord(recs, id, item.origin, item.username, item.password))
     ELSE IF policy = "Skip" THEN recs
     ELSE [recs EXCEPT ![i] = [@ EXCEPT !.password = item.password, !.archived = FALSE]]

(* Mutant: a restored record keeps the id it has in the backup.            *)
UniqueRecordIdTrusting(recs, preferred, fresh) == preferred

(* unique_record_id: the backup's id unless a record has it, else a new    *)
(* one (the loop redraws until it is unused).                              *)
UniqueRecordId(recs, preferred, fresh) ==
  IF preferred \in Ids(recs) THEN fresh ELSE preferred

(* One round of restore_many's loop: Replace keeps the row's id and takes  *)
(* everything else, the archived flag too, from the backup.                *)
RestoreItem(recs, item, policy, fresh) ==
  LET i == PosOfLogin(recs, item.origin, item.username)
  IN IF i = 0 \/ policy = "KeepBoth"
     THEN Append(recs, [item EXCEPT !.id = UniqueRecordId(recs, item.id, fresh)])
     ELSE IF policy = "Skip" THEN recs
     ELSE [recs EXCEPT ![i] = [item EXCEPT !.id = recs[i].id]]
=============================================================================
