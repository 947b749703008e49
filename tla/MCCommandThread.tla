-------------------------- MODULE MCCommandThread ---------------------------
(* Commands with every part, and with the parts that follow each other. *)
EXTENDS CommandThread

Shows(parts) == [parts |-> parts, prints |-> TRUE]
Silent(parts) == [parts |-> parts, prints |-> FALSE]

\* tenant create with a prompt and with --client-secret-stdin, tenant delete,
\* gateway writes that ask for a secret, dlp create with --body -, a read,
\* redteam scan, model-security install.
MCPrograms ==
    {Silent(<<"hidden", "change">>), Silent(<<"stdin", "change">>),
     Silent(<<"confirm", "change">>), Shows(<<"hidden", "request">>),
     Shows(<<"body", "request">>), Shows(<<"confirm", "request">>), Shows(<<"scan">>),
     Silent(<<"request", "child", "child">>)}

=============================================================================
