---------------------------- MODULE MC_AgencyRollup ----------------------------
(***************************************************************************)
(* Which writes the handlers of an AgencyRollup instance make.             *)
(***************************************************************************)
EXTENDS AgencyRollup, TLC

MCScheduled == {<<"requests", "schedule">>, <<"team", "schedule">>}

MCDaily == {<<"cruises", "nothing">>, <<"cruises", "schedule">>, <<"campaigns", "refresh">>}

None == {}

Symmetry == Permutations(Agencies) \cup Permutations(Handlers)
================================================================================
