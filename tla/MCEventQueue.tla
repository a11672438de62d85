---------------------------- MODULE MCEventQueue ----------------------------
(* Small event queues: each kind of action beside plain ones, and two timed *)
(* actions of either kind.                                                  *)
EXTENDS EventQueue, TLC

CONSTANTS p1, p2

MCProducers == {p1, p2}
MCWorkloads ==
    {<<"plain", "plain", "plain">>, <<"async", "plain", "plain">>,
     <<"precision", "precision">>, <<"precision", "idle">>, <<"idle", "plain">>}
=============================================================================
