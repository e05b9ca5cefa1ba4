----------------------------- MODULE OAuthToken -----------------------------
(***************************************************************************)
(* The Google account that the sheets are read and written with:           *)
(* services/oauth_service.go and controllers/oauth_controller.go.  The     *)
(* table google_tokens is to hold one row.  Administrators connect and     *)
(* disconnect an account, and every pass works with a token source that    *)
(* was built from the row and saves the token whenever Google renews it.   *)
(* SaveToken deletes and inserts in separate statements, and nothing       *)
(* orders two saves.                                                       *)
(*                                                                         *)
(* Google's answers carry a refresh token here: the consent is asked for   *)
(* with access_type=offline and prompt=consent, and a renewed token keeps  *)
(* the one it was renewed with.  So what SaveToken takes over from the old *)
(* row is what it has anyway, and a token is the account it is of.         *)
(***************************************************************************)
EXTENDS Naturals

CONSTANTS
    Accounts,       \* Google accounts
    Admins,         \* browser sessions of administrators
    Clients,        \* requests and passes that may be under way at once
    MaxTokens,      \* bound on the rows ever inserted
    MaxTurns        \* bound on connects, disconnects and passes

NoAccount == "none"
NoState == 0

TokenAssumption ==
    /\ NoAccount \notin Accounts
    /\ MaxTokens \in Nat
    /\ MaxTurns \in Nat

VARIABLES
    hasTable,   \* whether google_tokens exists
    token,      \* google_tokens by id: the account, and whether it came late
    lastToken,  \* the last id given to a row
    session,    \* oauth_state of each session, in the server's memory
    consent,    \* the state with which Google will send each browser back
    client,     \* what each request or pass is doing
    chosen,     \* the account that was connected last, none once a disconnect
                \* has emptied the table; not in the database
    lost,       \* whether a save ended between its statements since then
    turns       \* turns left

vars == <<token, lastToken, session, consent, client, chosen, lost, turns>>

Idle == [pc |-> "idle"]
Become(c, doing) == client' = [client EXCEPT ![c] = doing]
Turn == turns > 0 /\ turns' = turns - 1

Init ==
    /\ token = <<>>
    /\ lastToken = 0
    /\ session = [a \in Admins |-> NoState]
    /\ consent = [a \in Admins |-> NoState]
    /\ client = [c \in Clients |-> Idle]
    /\ chosen = NoAccount
    /\ lost = FALSE
    /\ turns \in 0 .. MaxTurns

HasToken == hasTable /\ token # <<>>

\* Mutant: in ascending order.
Oldest == token[CHOOSE id \in DOMAIN token : \A other \in DOMAIN token : id <= other]

Latest == token[CHOOSE id \in DOMAIN token : \A other \in DOMAIN token : other <= id]

----------------------------------------------------------------------------
\* Mutant: a new login forgets the account.
GoogleConnectAnew(a) ==
    /\ session' = [session EXCEPT ![a] = turns]
    /\ consent' = [consent EXCEPT ![a] = turns]
    /\ token' = <<>>
    /\ Turn
    /\ UNCHANGED <<lastToken, client, chosen, lost>>

(* A random state goes into the session and to Google; turns number them.   *)
GoogleConnect(a) ==
    /\ session' = [session EXCEPT ![a] = turns]
    /\ consent' = [consent EXCEPT ![a] = turns]
    /\ Turn
    /\ UNCHANGED <<token, lastToken, client, chosen, lost>>

(* The admin picks an account, Google sends the browser back, and the state *)
(* is taken off the session.  It does not match after a restart.            *)
GoogleCallback(c, a) ==
    /\ client[c] = Idle
    /\ consent[a] # NoState
    /\ consent' = [consent EXCEPT ![a] = NoState]
    /\ IF session[a] = consent[a]
       THEN /\ session' = [session EXCEPT ![a] = NoState]
            /\ \E account \in Accounts :
                  Become(c, [pc |-> "delete", account |-> account, from |-> "callback",
                             late |-> FALSE])
       ELSE UNCHANGED <<session, client>>
    /\ UNCHANGED <<token, lastToken, chosen, lost, turns>>

(* A save or a token source of an account that is not the chosen one.       *)
Outdated(account) ==
    [c \in Clients |-> IF client[c] # Idle /\ client[c].account # account
                       THEN [client[c] EXCEPT !.late = TRUE]
                       ELSE client[c]]

(* The admin is told "Google account disconnected" even if the DELETE fails.*)
GoogleDisconnect ==
    /\ \/ /\ hasTable
          /\ token' = <<>>
          /\ chosen' = NoAccount
          /\ client' = Outdated(NoAccount)
       \/ UNCHANGED <<token, chosen, client>>
    /\ Turn
    /\ UNCHANGED <<lastToken, session, consent, lost>>

(* TokenSource: without a row there is "no Google account connected".       *)
TokenSource(c) ==
    /\ client[c] = Idle
    /\ HasToken
    /\ Become(c, [pc |-> "source", account |-> Latest.account, from |-> "pass",
                  late |-> Latest.late])
    /\ Turn
    /\ UNCHANGED <<token, lastToken, session, consent, chosen, lost>>

(* persistingTokenSource.Token: the access token was renewed, so save it.   *)
Renew(c) ==
    /\ client[c].pc = "source"
    /\ Become(c, [client[c] EXCEPT !.pc = "delete"])
    /\ UNCHANGED <<token, lastToken, session, consent, chosen, lost, turns>>

EndPass(c) ==
    /\ client[c].pc = "source"
    /\ Become(c, Idle)
    /\ UNCHANGED <<token, lastToken, session, consent, chosen, lost, turns>>

(* What a client does after its save: a pass goes on, a callback is over.   *)
Saved(doing) == IF doing.from = "pass" THEN [doing EXCEPT !.pc = "source"] ELSE Idle

DeleteRows(c) ==
    /\ client[c].pc = "delete"
    /\ hasTable
    /\ token' = <<>>
    /\ Become(c, [client[c] EXCEPT !.pc = "insert"])
    /\ UNCHANGED <<lastToken, session, consent, chosen, lost, turns>>

(* SaveToken gives up before it inserts anything.                           *)
DeleteFails(c) ==
    /\ client[c].pc = "delete"
    /\ Become(c, Saved(client[c]))
    /\ UNCHANGED <<token, lastToken, session, consent, chosen, lost, turns>>

InsertRow(c) ==
    /\ client[c].pc = "insert"
    /\ lastToken < MaxTokens
    /\ LET doing == client[c]
           callback == doing.from = "callback"
           id == lastToken + 1
       IN  /\ lastToken' = id
           /\ token' = [i \in DOMAIN token \cup {id} |->
                           IF i = id THEN [account |-> doing.account,
                                           late |-> ~callback /\ doing.late]
                                     ELSE token[i]]
           /\ chosen' = IF callback THEN doing.account ELSE chosen
           /\ client' = [(IF callback THEN Outdated(doing.account) ELSE client)
                             EXCEPT ![c] = Saved(doing)]
    /\ lost' = FALSE
    /\ UNCHANGED <<session, consent, turns>>

(* The insert fails, which a pass does not notice.                          *)
InsertFails(c) ==
    /\ client[c].pc = "insert"
    /\ Become(c, Saved(client[c]))
    /\ lost' = TRUE
    /\ UNCHANGED <<token, lastToken, session, consent, chosen, turns>>

(* Sessions and whatever is under way are in the server's memory.           *)
Restart ==
    /\ session' = [a \in Admins |-> NoState]
    /\ client' = [c \in Clients |-> Idle]
    /\ lost' = (lost \/ \E c \in Clients : client[c].pc = "insert")
    /\ UNCHANGED <<token, lastToken, consent, chosen, turns>>

AccountStep ==
    \/ \E a \in Admins : GoogleConnect(a)
    \/ \E c \in Clients, a \in Admins : GoogleCallback(c, a)
    \/ GoogleDisconnect
    \/ \E c \in Clients :
          \/ TokenSource(c)
          \/ Renew(c)
          \/ EndPass(c)
          \/ DeleteRows(c)
          \/ DeleteFails(c)
          \/ InsertRow(c)
          \/ InsertFails(c)
=============================================================================
