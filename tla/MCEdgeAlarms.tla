----------------------------- MODULE MCEdgeAlarms -----------------------------
(* Rule lists for EdgeAlarms: two thresholds of one rule, a communication  *)
(* loss, a rule that raises before and after others, and a rule list from  *)
(* which an alarm was removed.                                             *)
EXTENDS EdgeAlarms

CONSTANTS level, status     \* the tags

R(id, tag, kind, threshold) ==
    [id |-> id, tag |-> tag, kind |-> kind, threshold |-> threshold]

MCRulebooks ==
    {<<R(1, level, "high", 1), R(2, status, "digital_on", None),
       R(3, level, "communication_loss", 1)>>,
     <<R(1, level, "low", 0), R(4, status, "malformed", None),
       R(3, level, "communication_loss", 2)>>,
     <<R(2, status, "digital_off", None)>>}
=============================================================================
