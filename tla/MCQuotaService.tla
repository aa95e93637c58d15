--------------------------- MODULE MCQuotaService ---------------------------
(* Instances of QuotaService for TLC.                                       *)
EXTENDS QuotaService, TLC

MCGrant == [starter |-> 2, pro |-> 3]

BaseRow == [plan |-> "starter", status |-> "active", enforce |-> TRUE,
            trial |-> 0, trialOver |-> FALSE, allow |-> 2, used |-> 0,
            debt |-> 0, topup |-> 0, start |-> 1, ev |-> 1, sub |-> TRUE,
            cancel |-> FALSE]
TrialRow == [BaseRow EXCEPT !.plan = "trial", !.status = "none", !.trial = 2,
                            !.allow = 0, !.start = 0, !.ev = 0, !.sub = FALSE]
SpentRow == [BaseRow EXCEPT !.used = 2]

SpentOrTrial == {SpentRow, TrialRow}
OneSpentRow == {SpentRow}

BaseUpdate == [terminate |-> FALSE, metadataOnly |-> FALSE, plan |-> "starter",
               status |-> "active", cancel |-> FALSE, start |-> 2, created |-> 2]
\* A renewal and an upgrade within the first period.
RenewalAndUpgrade == {BaseUpdate, [BaseUpdate EXCEPT !.plan = "pro", !.start = 1]}
OneRenewal == {BaseUpdate}

\* A lower allowance; a shorter trial with the enforcement off.
LowerOrOff == {[allow |-> {1}, enforce |-> {}, trial |-> 2],
               [allow |-> {}, enforce |-> {FALSE}, trial |-> 1]}
NoAdmin == {}

AllWriters == {"settle", "update", "customer", "repair", "overrides"}
SettleAndUpdate == {"settle", "update"}
Symmetry == Permutations(Workers) \cup Permutations(Keys) \cup Permutations(TopUps)
=============================================================================
