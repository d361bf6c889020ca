------------------------------ MODULE Accounts ------------------------------
(***************************************************************************)
(* The password of one account and the tokens of its forgotten-password    *)
(* links.  Every request is one transaction.  A request for a link closes  *)
(* the links that are open and creates a new one; a reset locks the row of *)
(* its token, checks it and spends it; a change of password compares with  *)
(* the account row its authentication read before.  An UPDATE sees the     *)
(* rows committed when it starts and waits for the rows others hold.       *)
(***************************************************************************)
EXTENDS Naturals, FiniteSets

CONSTANTS Links,        \* requests for a link; each one's token has its name
          Resets,       \* requests that use a link
          Changes,      \* requests of the signed-in user
          NoLink

ASSUME AccountsAssumption ==
    /\ NoLink \notin Links \union Resets \union Changes
    /\ Links \intersect Resets = {}
    /\ Links \intersect Changes = {}
    /\ Resets \intersect Changes = {}

VARIABLES
    token,              \* "none", "open", "used" or "expired" for each link
    holder,             \* the request whose transaction holds the token's row
    pc,                 \* where each request stands
    seen,               \* open tokens a link request's UPDATE started with
    link,               \* the link a reset was given
    password,           \* the request that set the password, or "first"
    compared            \* the password a change compared with

accountVars == <<token, holder, pc, seen, link, password, compared>>

Requests == Links \union Resets \union Changes
NoRequest == NoLink

AccountsTypeOK ==
    /\ token \in [Links -> {"none", "open", "used", "expired"}]
    /\ holder \in [Links -> Requests \union {NoRequest}]
    /\ pc \in [Requests -> {"start", "reading", "holding", "done", "refused"}]
    /\ seen \in [Links -> SUBSET Links]
    /\ link \in [Resets -> Links \union {NoLink}]
    /\ password \in Requests \union {NoRequest}
    /\ compared \in [Changes -> Requests \union {NoRequest}]

AccountsInit ==
    /\ token = [l \in Links |-> "none"]
    /\ holder = [l \in Links |-> NoRequest]
    /\ pc = [r \in Requests |-> "start"]
    /\ seen = [l \in Links |-> {}]
    /\ link = [r \in Resets |-> NoLink]
    /\ password = NoRequest
    /\ compared = [c \in Changes |-> NoRequest]

Opened == {l \in Links : token[l] = "open"}
HeldBy(r) == {l \in Links : holder[l] = r}
Freed(r) == [l \in Links |-> IF holder[l] = r THEN NoRequest ELSE holder[l]]

LockableAlways(l) == TRUE

\* The row lock of select_for_update, and of UPDATE: one transaction at a time.
Lockable(l) == holder[l] = NoRequest
-----------------------------------------------------------------------------
\* request_password_reset

AskForLink(l) ==
    /\ pc[l] = "start"
    /\ seen' = [seen EXCEPT ![l] = Opened]
    /\ pc' = [pc EXCEPT ![l] = "reading"]
    /\ UNCHANGED <<token, holder, link, password, compared>>

\* The rows of the UPDATE, once no other transaction holds them, are checked
\* again: those spent in the meantime are left out.
Superseded(l) == seen[l] \intersect Opened
CloseOpenLinks(l) ==
    /\ pc[l] = "reading"
    /\ \A k \in seen[l] : Lockable(k)
    /\ holder' = [k \in Links |-> IF k \in Superseded(l) THEN l ELSE holder[k]]
    /\ pc' = [pc EXCEPT ![l] = "holding"]
    /\ UNCHANGED <<token, seen, link, password, compared>>

CreateLink(l) ==
    /\ pc[l] = "holding"
    /\ token' = [k \in Links |-> IF k \in HeldBy(l) THEN "used"
                                 ELSE IF k = l THEN "open" ELSE token[k]]
    /\ holder' = Freed(l)
    /\ pc' = [pc EXCEPT ![l] = "done"]
    /\ UNCHANGED <<seen, link, password, compared>>

\* The mail cannot be sent: nothing the transaction wrote remains.
MailFails(l) ==
    /\ pc[l] = "holding"
    /\ holder' = Freed(l)
    /\ pc' = [pc EXCEPT ![l] = "refused"]
    /\ UNCHANGED <<token, seen, link, password, compared>>

Expires(l) ==
    /\ token[l] = "open"
    /\ Lockable(l)
    /\ token' = [token EXCEPT ![l] = "expired"]
    /\ UNCHANGED <<holder, pc, seen, link, password, compared>>

-----------------------------------------------------------------------------
\* reset_password

OpenResetPage(r, l) ==
    /\ pc[r] = "start"
    /\ token[l] # "none"
    /\ link' = [link EXCEPT ![r] = l]
    /\ pc' = [pc EXCEPT ![r] = "reading"]
    /\ UNCHANGED <<token, holder, seen, password, compared>>

\* PasswordResetToken.is_valid
IsValid(l) == token[l] = "open"

LockToken(r) ==
    /\ pc[r] = "reading"
    /\ Lockable(link[r])
    /\ IF IsValid(link[r])
       THEN /\ holder' = [holder EXCEPT ![link[r]] = r]
            /\ pc' = [pc EXCEPT ![r] = "holding"]
       ELSE /\ pc' = [pc EXCEPT ![r] = "refused"]
            /\ UNCHANGED holder
    /\ UNCHANGED <<token, seen, link, password, compared>>

ResetPassword(r) ==
    /\ pc[r] = "holding"
    /\ password' = r
    /\ token' = [token EXCEPT ![link[r]] = "used"]
    /\ holder' = Freed(r)
    /\ pc' = [pc EXCEPT ![r] = "done"]
    /\ UNCHANGED <<seen, link, compared>>

\* validate_password raises: the token stays open for another attempt.
RefusePassword(r) ==
    /\ pc[r] = "holding"
    /\ holder' = Freed(r)
    /\ pc' = [pc EXCEPT ![r] = "refused"]
    /\ UNCHANGED <<token, seen, link, password, compared>>

-----------------------------------------------------------------------------
\* change_password: request.user was read when the request was authenticated.

Authenticate(c) ==
    /\ pc[c] = "start"
    /\ compared' = [compared EXCEPT ![c] = password]
    /\ pc' = [pc EXCEPT ![c] = "reading"]
    /\ UNCHANGED <<token, holder, seen, link, password>>

ChangePassword(c) ==
    /\ pc[c] = "reading"
    /\ password' = c
    /\ pc' = [pc EXCEPT ![c] = "done"]
    /\ UNCHANGED <<token, holder, seen, link, compared>>

RefuseChange(c) ==
    /\ pc[c] = "reading"
    /\ pc' = [pc EXCEPT ![c] = "refused"]
    /\ UNCHANGED <<token, holder, seen, link, password, compared>>

AccountsNext ==
    \/ \E l \in Links : AskForLink(l) \/ CloseOpenLinks(l) \/ CreateLink(l) \/ MailFails(l) \/ Expires(l)
    \/ \E r \in Resets, l \in Links : OpenResetPage(r, l)
    \/ \E r \in Resets : LockToken(r) \/ ResetPassword(r) \/ RefusePassword(r)
    \/ \E c \in Changes : Authenticate(c) \/ ChangePassword(c) \/ RefuseChange(c)

AccountsSpec == AccountsInit /\ [][AccountsNext]_accountVars

-----------------------------------------------------------------------------
Spent(l) == \E r \in Resets : pc[r] = "done" /\ link[r] = l
Replaced(l) == \E k \in Links : pc[k] = "done" /\ l \in seen[k]

\* A link sets the password at most once, however many requests bring it at the
\* same time, and never after a later link that was asked for while it was open
\* has been issued: the row locks of the two services order them.
LinkWorksOnce ==
    [][\A r \in Resets : pc[r] # "done" /\ pc'[r] = "done" =>
            ~Spent(link[r]) /\ ~Replaced(link[r])]_accountVars
=============================================================================
