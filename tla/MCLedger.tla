------------------------------ MODULE MCLedger ------------------------------
EXTENDS Ledger

CONSTANTS task, chat

MCAgents == [r \in {task, chat} |-> "a"]
MCProviders == [r \in {task, chat} |-> IF r = task THEN "routed" ELSE "table"]

MCRates == [routed |-> [prompt |-> 0, completion |-> 0],
            table |-> [prompt |-> 2, completion |-> 3, cached |-> 1]]

MCUse(input, cached, output, inline, total) ==
    [input |-> input, cached |-> cached, created |-> 0, output |-> output,
     reasoning |-> 0, inline |-> inline, charged |-> total]

MCAnswers == [routed |-> {MCUse(1, 0, 0, 0, 1), MCUse(1, 0, 0, 1, 1)},
              table |-> {MCUse(1, 1, 0, 0, 1)}]

MCSetting(scope, key, period, limit, hard) ==
    [scope |-> scope, key |-> key, period |-> period, limit |-> limit,
     hard |-> hard]

MCSettings == {MCSetting("agent", "a", "daily", 1, TRUE),
               MCSetting("provider", "table", "weekly", 1, TRUE),
               MCSetting("global", "*", "weekly", 2, FALSE)}

MCCalls == [r \in {task, chat} |-> IF r = chat THEN 2 ELSE 1]

MCLength == [daily |-> 1, weekly |-> 2]
=============================================================================
