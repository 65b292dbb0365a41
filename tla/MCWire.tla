-------------------------------- MODULE MCWire --------------------------------
(* Small instances of Wire for TLC. *)
EXTENDS WireInv

Message(type, head, fields) == [type |-> type, head |-> head, fields |-> fields]
Id == <<7>>
Wide == <<Lead, Follow>>    \* a text of one two-cell character

\* Every layout, with empty, wide and repeated fields.
GreeterMessages ==
    {Message("request", <<Id, Create>>, <<<<Follow, 3>>>>),
     Message("request", <<Id, StartSession>>, <<<<4>>, <<<<Wide>>, <<<<>>>>>>, <<5>>, <<>>, Wide>>),
     Message("request", <<Id, GetState>>, <<>>),
     Message("response", <<Id, Continue, TRUE>>, <<<<1>>, <<<<2>>, Wide>>>>),
     Message("response", <<Id, Create, TRUE>>, <<<<1>>, <<>>>>),
     Message("response", <<Id, GetState, TRUE>>,
             <<<<>>, TRUE, <<<<12, <<>>, <<>>>>, <<2, Wide, <<>>>>>>>>),
     Message("response", <<Id, GetState, TRUE>>,    \* beyond a frame
             <<<<>>, TRUE, <<<<12, <<3>>, <<>>>>, <<2, Wide, <<4>>>>>>>>),
     Message("response", <<<<>>, Power, TRUE>>, <<FALSE>>),
     Message("response", <<Id, Power, FALSE>>, <<<<1>>, Wide>>),
     Message("event", <<Finished>>, <<-1, -50, TRUE, <<2>>>>),
     Message("event", <<StateChanged>>, <<<<1>>, FALSE, <<>>>>),
     Message("event", <<Starting>>, <<<<1>>, <<<<<<>>>>>>>>),
     Message("event", <<Other>>, <<>>)}

WorkerMessages ==
    {Message("worker", <<Start>>, <<<<1>>, Wide, <<>>>>),
     Message("worker", <<Answer>>, <<<<Lead, 2>>>>),
     Message("worker", <<Cancel>>, <<>>),
     Message("worker", <<Prompt>>, <<<<1>>, <<>>>>),
     Message("worker", <<Ready>>, <<>>),
     Message("worker", <<Failed>>, <<<<>>, Wide>>)}

PeerMessages == [greeter |-> GreeterMessages, worker |-> WorkerMessages]
===============================================================================
