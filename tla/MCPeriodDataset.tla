-------------------------- MODULE MCPeriodDataset ---------------------------
(* Instances of PeriodDataset for TLC.  `full` has every family, `nocart`   *)
(* is a correction of it that no longer carries FONDCART, `reg` carries the *)
(* registry alone (a month between two portfolio dates), `bad` does not     *)
(* parse, `corrupt` is a ZIP with a sound directory and a damaged member.   *)
EXTENDS PeriodDataset

CONSTANTS full, nocart, reg, bad, corrupt

MembersOf == [a \in Artifacts |->
    CASE a = nocart -> Families \ {"FONDCART"}
      [] a = reg    -> {"FONDREGISTRO", "FONDMENS"}
      [] OTHER      -> Families]

OnePeriod == <<"2025-12">>
TwoPeriods == <<"2025-11", "2025-12">>
Sound == Artifacts \ {corrupt}
Readables == Sound \ {bad}
=============================================================================
