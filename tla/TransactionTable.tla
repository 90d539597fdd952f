-------------------------- MODULE TransactionTable --------------------------
(***************************************************************************)
(* myTransactions of DSNetManager: the requests whose replies are still to *)
(* come, by ticket.  The table is a function on the tickets in use; the    *)
(* operators are the changes its methods make to it.  An entry knows how   *)
(* long the fixed part of its reply is, which the wire does not say, and   *)
(* that is why an entry outlives the caller who gave up on it.             *)
(***************************************************************************)
EXTENDS NatsueProtocol, Functions

TransactionKind ==
    {"TRANS_CLIENT_INFO", "TRANS_CONNECTION_DETAIL", "TRANS_STATUS",
     "TRANS_RANDOM_USER", "TRANS_FEED_HISTORY", "TRANS_ABANDONED"}

\* about stands for resultUIN, resultString and resultInts: what the reply
\* told us about.
Transaction == [kind       : TransactionKind,
                fixedExtra : Nat,
                done       : BOOLEAN,
                success    : BOOLEAN,
                about      : Subject]

NoTransactions == [ticket \in {} |-> Nobody]
IsTable(table) == /\ table \in [DOMAIN table -> Transaction]
                  /\ DOMAIN table \subseteq Nat \ {0}

\* std::map: insert or overwrite, and erase.
Insert(f, x, v) == [y \in DOMAIN f \cup {x} |-> IF y = x THEN v ELSE f[y]]
Erase(f, x)     == Restrict(f, DOMAIN f \ {x})

\* StartTransaction, with the ticket it drew.
StartTransaction(table, ticket, kind, fixedExtra) ==
    Insert(table, ticket,
           [kind |-> kind, fixedExtra |-> fixedExtra, done |-> FALSE,
            success |-> FALSE, about |-> Nobody])

\* Mutant of AbandonTransaction: the entry goes with the waiter.
ForgetTransaction(table, ticket) == Erase(table, ticket)

\* AbandonTransaction: a reply still owed keeps its entry.
AbandonTransaction(table, ticket) ==
    IF ticket \notin DOMAIN table THEN table
    ELSE IF table[ticket].done THEN Erase(table, ticket)
    ELSE [table EXCEPT ![ticket].kind = "TRANS_ABANDONED"]

\* What a reply of each kind says about the success of the transaction.  A
\* status reply is good when it is long enough to hold its 16 bytes.
ResponseSucceeds(transaction, reply) ==
    \/ /\ transaction.kind \in {"TRANS_CLIENT_INFO", "TRANS_CONNECTION_DETAIL",
                               "TRANS_RANDOM_USER"}
       /\ reply.flag
    \/ transaction.kind = "TRANS_STATUS" /\ transaction.fixedExtra >= 1
    \/ transaction.kind = "TRANS_FEED_HISTORY"

\* HandleTransactionResponse, and the erase of an entry nobody waits for.
HandleTransactionResponse(table, reply) ==
    LET entry == table[reply.ticket]
    IN  IF entry.kind = "TRANS_ABANDONED" THEN Erase(table, reply.ticket)
        ELSE [table EXCEPT ![reply.ticket].done    = TRUE,
                           ![reply.ticket].success = ResponseSucceeds(entry, reply),
                           ![reply.ticket].about   = reply.about]
=============================================================================
