------------------------------ MODULE MCStartup ------------------------------
EXTENDS Startup, SequencesExt, TLC

Comment(e) == [kind |-> "comment", end |-> e]
Property(k, v, e) == [kind |-> "property", end |-> e, key |-> k, value |-> v]

MCField == {"myself", "5", "7 s", "n", "h", "h1", "h2", "p", "t"}

MCNumber == ("5" :> 5) @@ ("7 s" :> 7)

MonitorPieces ==
    {Comment(TRUE), Comment(FALSE), Property("poll_interval", <<"7 s">>, TRUE)}
    \cup {Property("target", <<"n", "h", "p">>, e) : e \in BOOLEAN}
    \cup {Property("target", <<"n", "h1", "h2", "p">>, TRUE), Property("target", <<"n", "h">>, TRUE)}

TelegramPieces ==
    {Property("user_id", <<"5">>, TRUE), Property("token", <<"t", "t">>, TRUE),
     Property("target", <<"n", "h", "p">>, TRUE), Property("myname", <<"5">>, TRUE)}

MCConfiguration ==
    [monitor : BoundedSeq(MonitorPieces, 3) \cup {None}, telegram : BoundedSeq(TelegramPieces, 1) \cup {None}]
    \cup [monitor : BoundedSeq(MonitorPieces, 1) \cup {None}, telegram : BoundedSeq(TelegramPieces, 2)]
=============================================================================
