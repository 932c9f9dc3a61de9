------------------------------- MODULE Access -------------------------------
(***************************************************************************)
(* Who has access: the rule every other part of the system asks.  A        *)
(* member's row holds the manual decisions; the paid flag stands for "the  *)
(* later of provider_paid_until of the newest subscription and             *)
(* manual_access_until is still ahead of the clock".                       *)
(***************************************************************************)

Overrides == {"none", "allow", "deny"}

\* Mutant of EffectiveAccess: a paid term outweighs a deny.
EffectiveAccessPaidFirst(row, paid) ==
  /\ ~row.banned
  /\ paid \/ row.whitelist \/ row.override = "allow"

EffectiveAccess(row, paid) ==
  /\ row.override # "deny"
  /\ ~row.banned
  /\ row.whitelist \/ row.override = "allow" \/ paid
=============================================================================
