------------------------------- MODULE Session -------------------------------
(***************************************************************************)
(* The methods of `Session` in logic/vaults-bridge-core/src/session.rs as  *)
(* functions on session values.  A key is a natural number: every          *)
(* successful handshake derives a new one (fresh ephemeral secrets), and   *)
(* NoKey stands for `None`.  Method m(args) that can fail is modelled by   *)
(* its verdict (the guard, an error name or "Ok") and by the value it      *)
(* leaves the session in when it succeeds.                                 *)
(***************************************************************************)
EXTENDS Naturals

NoKey == 0

SessionStates == {"Idle", "Handshaking", "Active", "Expired"}

Sessions == [state : SessionStates, key : Nat, last_nonce : Nat,
             last_activity_ms : Nat]

NewSession == [state |-> "Idle", key |-> NoKey, last_nonce |-> 0,
               last_activity_ms |-> 0]

IsActive(s) == s.state = "Active"

(***************************************************************************)
(* accept: the host key is undecodable (parse_pubkey fails after the state *)
(* was set, the old key stays), of low order (back to Idle, the old key    *)
(* stays), or good (a new key k, nonce counter and idle timer restart).    *)
(***************************************************************************)
AcceptUnparsable(s) == [s EXCEPT !.state = "Handshaking"]

AcceptLowOrder(s) == [s EXCEPT !.state = "Idle"]

AcceptOk(s, k, now) == [s EXCEPT !.state = "Active", !.key = k,
                                 !.last_nonce = 0, !.last_activity_ms = now]

(* Mutant: `nonce < last` instead of `nonce <= last`.                      *)
AcceptNonceVerdictLax(s, nonce) ==
  CASE ~IsActive(s)          -> "NotActive"
    [] IsActive(s) /\ nonce < s.last_nonce -> "NonceReused"
    [] OTHER                 -> "Ok"

AcceptNonceVerdict(s, nonce) ==
  CASE ~IsActive(s)          -> "NotActive"
    [] IsActive(s) /\ nonce <= s.last_nonce -> "NonceReused"
    [] OTHER                 -> "Ok"

AcceptNonce(s, nonce, now) == [s EXCEPT !.last_nonce = nonce,
                                        !.last_activity_ms = now]

SaturatingSub(a, b) == IF a > b THEN a - b ELSE 0

(* Mutant: `> threshold` instead of `>= threshold`.                        *)
IdleTooLongLate(s, now, idle) ==
  IsActive(s) /\ SaturatingSub(now, s.last_activity_ms) > idle

IdleTooLong(s, now, idle) ==
  IsActive(s) /\ SaturatingSub(now, s.last_activity_ms) >= idle

(* Mutant: the expired session keeps its key.                              *)
ExpireKeepKey(s) == [s EXCEPT !.state = "Expired"]

Expire(s) == [s EXCEPT !.state = "Expired", !.key = NoKey]

(***************************************************************************)
(* seal and open need an active session with a key; both touch the idle    *)
(* timer on success.  A payload is opened under the key it was sealed with.*)
(***************************************************************************)
CanSeal(s) == IsActive(s) /\ s.key # NoKey

CanOpen(s, sealedUnder) == CanSeal(s) /\ sealedUnder = s.key

Touch(s, now) == [s EXCEPT !.last_activity_ms = now]
=============================================================================
