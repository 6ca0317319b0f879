---------------------------- MODULE MCAgentTurn ----------------------------
EXTENDS AgentTurn

CONSTANTS Web, Every

call(id, key, op, name, risk) ==
  [id |-> id, key |-> key, op |-> op, name |-> name, risk |-> risk,
   shell |-> FALSE, single |-> TRUE, readOnly |-> risk = 0, allowed |-> TRUE]

Get == call(1, "get", "get", Web, 0)
Scale3 == call(2, "scale web", "scale", Web, 2)
Scale5 == call(3, "scale web", "scale", Web, 2)
ScaleAll == call(4, "scale", "scale", Every, 2)
Create == call(5, "create", "create", Web, 2)
CreateBig == call(6, "create big", "create", Web, 3)

MCCalls == {Get, Scale3, Scale5, ScaleAll, Create, CreateBig}
MCRounds ==
  {<<Scale3>>, <<ScaleAll>>, <<Scale3, Scale5>>, <<Create, Get, CreateBig>>}
=============================================================================
