------------------------------ MODULE Accounts ------------------------------
(***************************************************************************)
(* Accounts, groups and invite links of the app, and the browsers people    *)
(* register and sign in with: verification codes (utils/email-code.ts),     *)
(* registration, sign-in, passwords and the verifiers OBS signs in with     *)
(* (api/auth, api/me), group membership and the administrator's calls       *)
(* (api/users, api/groups, services/invites.ts).                            *)
(*                                                                          *)
(* A handler runs to its next await.  The calls with a body read it after   *)
(* they checked the caller, and a legacy hash is verified off the thread:   *)
(* between the two the handler is a record of waiting.  A refusal (4xx)     *)
(* that changes nothing is no step.  A person has one browser, and an       *)
(* address for each account.                                                *)
(***************************************************************************)
EXTENDS Naturals, Sequences, FiniteSets

CONSTANTS
  Browsers, Addresses,
  Owner,      \* address -> browser of the person who reads its mail
  Unwelcome,  \* addresses the rules of registration refuse
  Passwords,
  Groups, Invites,  \* row ids of groups and of invite links
  Names,      \* names of groups
  MaxUses,    \* maxUses of the invite links that are made
  MaxIds,     \* bound: account ids 1..MaxIds
  MaxAttempts, Daily,  \* wrong guesses per code, codes per address
  CodeTTL,    \* ticks a code lives; one code per address and tick
  Horizon,    \* bound: the clock runs to Horizon
  MaxCalls,   \* bound: calls that change something
  None, Removed

\* Rows of users and of invite_links, and a code that waits for its address.
UserRows == [email : Addresses, role : {"admin", "user"}, hash : Passwords, legacy : BOOLEAN,
             verifier : Passwords \cup {None}, announcement : Nat]
LinkRows == [group : Groups, used : Nat, until : Nat \cup {None}]
CodeRows == [id : Nat, until : Nat, attempts : Nat]

ASSUME AccountsAssumption ==
  /\ Owner \in [Addresses -> Browsers] /\ Unwelcome \subseteq Addresses
  /\ MaxUses \in Nat \ {0} /\ MaxIds \in Nat \ {0}
  /\ MaxAttempts \in Nat \ {0} /\ Daily \in Nat \ {0} /\ CodeTTL \in Nat \ {0}
  /\ Horizon \in Nat /\ MaxCalls \in Nat
  /\ None # Removed /\ {None, Removed} \cap (Names \cup LinkRows) = {}
  /\ None \notin Passwords \cup UserRows \cup CodeRows

VARIABLES
  account,  \* users: id -> None or the row
  nextId,   \* sqlite_sequence of users
  group,    \* groups: id -> None, its name, or Removed
  member,   \* user_groups: pairs of an account and a group
  invite,   \* invite_links: id -> None, the row, or Removed
  pool,     \* announcements new accounts are given
  rotated,  \* the key that passwords travel under is not the first one
  codes,    \* codes: address and browser -> None or [id, until, attempts]
  sent,     \* limiter: address -> [n, last]
  browser,  \* browser -> [cookie, stash]
  waiting,  \* handlers that wait
  now, calls,
  guesses, spent, nextCode, \* history: wrong guesses per address, codes that admitted
  issuedTo                  \* history: browser -> address its cookie was issued for

accountVars == <<account, nextId>>
inviteVars == <<invite>>
groupVars == <<group, member, inviteVars>>
codeVars == <<codes, sent, guesses, nextCode>>
vars == <<accountVars, groupVars, pool, rotated, codeVars, browser, waiting, now, calls,
          spent, issuedTo>>

Ids == 1..MaxIds

-----------------------------------------------------------------------------
Taken(id) == id \in Ids /\ account[id] # None
ByEmail(e) == {id \in Ids : Taken(id) /\ account[id].email = e}
IsEmpty == \A id \in Ids : ~Taken(id)
CountByRole(r) == Cardinality({id \in Ids : Taken(id) /\ account[id].role = r})

IsGroup(g) == group[g] \notin {None, Removed}
NameFree(n) == \A g \in Groups : group[g] # n

\* The cookie names the account, the row has its role; no row, no session.
Cookie(b) == browser[b].cookie
Identity(b) == IF Taken(Cookie(b)) THEN Cookie(b) ELSE 0
IsAdmin(b) == Identity(b) # 0 /\ account[Identity(b)].role = "admin"

\* A new table, or the one account of a version before this one: its hash is
\* of the old format and it has no verifier yet.
Init ==
  /\ \/ /\ account = [id \in Ids |-> None] /\ nextId = 1
        /\ browser = [c \in Browsers |-> [cookie |-> 0, stash |-> None]]
        /\ issuedTo = [c \in Browsers |-> None]
     \/ \E e \in Addresses \ Unwelcome, w \in Passwords :
          /\ account = [id \in Ids |->
               IF id = 1 THEN [email |-> e, role |-> "admin", hash |-> w, legacy |-> TRUE,
                               verifier |-> None, announcement |-> 0] ELSE None]
          /\ nextId = 2
          /\ browser = [c \in Browsers |->
               [cookie |-> IF c = Owner[e] THEN 1 ELSE 0, stash |-> None]]
          /\ issuedTo = [c \in Browsers |-> IF c = Owner[e] THEN e ELSE None]
  /\ \/ group = [g \in Groups |-> None]
     \/ \E g \in Groups, n \in Names :
          nextId = 2 /\ group = [f \in Groups |-> IF f = g THEN n ELSE None]
  /\ member = {}
  /\ invite = [i \in Invites |-> None]
  /\ pool = <<1, 2>>
  /\ rotated = FALSE
  /\ codes = [a \in Addresses \X Browsers |-> None]
  /\ sent = [e \in Addresses |-> [n |-> 0, last |-> None]]
  /\ waiting = {}
  /\ now = 0 /\ calls = 0 /\ nextCode = 1
  /\ guesses = [e \in Addresses |-> 0] /\ spent = {}

Call == calls < MaxCalls /\ calls' = calls + 1

-----------------------------------------------------------------------------
(* Verification codes.                                                      *)

Welcome(e) == e \notin Unwelcome
Sweep == [a \in DOMAIN codes |->
            IF codes[a] # None /\ codes[a].until <= now THEN None ELSE codes[a]]

\* checkEmailSend: one per tick and Daily in all.
MaySend(e) == sent[e].n < Daily /\ sent[e].last # now

IssueCode(e, b) ==
  [Sweep EXCEPT ![<<e, b>>] = [id |-> nextCode, until |-> now + CodeTTL, attempts |-> 0]]

\* The code stays when the mail cannot be sent.
SendCode(b, e) ==
  /\ ~IsEmpty /\ Welcome(e) /\ ByEmail(e) = {}
  /\ MaySend(e)
  /\ sent' = [sent EXCEPT ![e] = [n |-> @.n + 1, last |-> now]]
  /\ codes' = IssueCode(e, b)
  /\ nextCode' = nextCode + 1
  /\ UNCHANGED <<accountVars, groupVars, pool, rotated, browser, waiting, now, calls, guesses,
                 spent, issuedTo>>

\* Mutant: a wrong guess is not counted.
Uncounted(e, b) == [Sweep EXCEPT ![<<e, b>>] = @]

\* A wrong guess counts, and the last one drops the code.
Missed(e, b) ==
  LET c == Sweep[<<e, b>>]
  IN  [Sweep EXCEPT ![<<e, b>>] =
         IF c = None \/ c.attempts + 1 >= MaxAttempts THEN None
         ELSE [c EXCEPT !.attempts = @ + 1]]

\* Mutant: a code that was right stays.
HitKept(e, b) == Sweep

Hit(e, b) == [Sweep EXCEPT ![<<e, b>>] = None]

-----------------------------------------------------------------------------
(* Invite links.                                                            *)

IsLink(i) == invite[i] \notin {None, Removed}
MembersOf(g) == {m[1] : m \in {x \in member : x[2] = g}}
Live(i) == invite[i].until # None => invite[i].until >= now

\* Mutant: the uses are compared one off.
UsableOnceMore(i) == Live(i) /\ invite[i].used <= MaxUses

Usable(i) == Live(i) /\ invite[i].used < MaxUses

\* consumeInvite: a member joins nothing and uses nothing up.
Joins(i, id) == i # None /\ IsLink(i) /\ id \notin MembersOf(invite[i].group) /\ Usable(i)
Admitted(i, id) == IF Joins(i, id) THEN member \cup {<<id, invite[i].group>>} ELSE member
Counted(i, id) == IF Joins(i, id) THEN [invite EXCEPT ![i].used = @ + 1] ELSE invite

CreateInvite(g, until) ==
  /\ IsGroup(g)
  /\ \E i \in Invites :
       /\ invite[i] = None
       /\ invite' = [invite EXCEPT ![i] = [group |-> g, used |-> 0, until |-> until]]
  /\ UNCHANGED <<accountVars, group, member>>

RemoveInvite(b, i) ==
  /\ Call
  /\ IsAdmin(b) /\ IsLink(i)
  /\ invite' = [invite EXCEPT ![i] = Removed]
  /\ UNCHANGED <<accountVars, group, member, pool, rotated, codeVars, browser, waiting, now,
                 spent, issuedTo>>

SetPendingInvite(b, i) == [browser EXCEPT ![b].stash = i]

\* The page of an invite link keeps its code for the registration.
VisitInvite(b, i) ==
  /\ Identity(b) = 0 /\ browser[b].stash # i
  /\ browser' = SetPendingInvite(b, i)
  /\ UNCHANGED <<accountVars, groupVars, pool, rotated, codeVars, waiting, now, calls, spent,
                 issuedTo>>

Claim(b, i) ==
  /\ Call
  /\ Identity(b) # 0 /\ Joins(i, Identity(b))
  /\ member' = Admitted(i, Identity(b))
  /\ invite' = Counted(i, Identity(b))
  /\ UNCHANGED <<accountVars, group, pool, rotated, codeVars, browser, waiting, now, spent,
                 issuedTo>>

-----------------------------------------------------------------------------
(* Registration and sign-in.                                                *)

\* The key a browser has fetched once serves until the page is loaded again:
\* after a rotation some passwords still travel under the old one.
Readable(fetched) == rotated => fetched = "after"
Fetched == {"before", "after"}

\* What the browser keeps when its request is answered.
TakePendingInvite(b) == [browser EXCEPT ![b].stash = None]
Cleared(B, b) == [B EXCEPT ![b].cookie = 0]
SignedIn(B, b, id) == [B EXCEPT ![b].cookie = id]

\* A registration that fails has taken the invite code along.
RegisterRefused(b, e) ==
  /\ Call
  /\ browser' = TakePendingInvite(b)
  /\ \/ /\ (\E k \in Fetched : ~Readable(k)) \/ ~Welcome(e) \/ ByEmail(e) # {}
        /\ UNCHANGED <<codes, guesses>>
     \/ /\ Welcome(e) /\ ByEmail(e) = {} /\ ~IsEmpty
        /\ codes' = Missed(e, b)
        /\ guesses' = [guesses EXCEPT ![e] = @ + (IF Sweep[<<e, b>>] = None THEN 0 ELSE 1)]
  /\ UNCHANGED <<accountVars, groupVars, pool, rotated, sent, nextCode, waiting, now, spent,
                 issuedTo>>

\* Mutant: the verifier is left to the first sign-in.
UnmintedRow(e, w) ==
  [email |-> e, role |-> IF IsEmpty THEN "admin" ELSE "user", hash |-> w, legacy |-> FALSE,
   verifier |-> None, announcement |-> IF pool = <<>> THEN 0 ELSE Head(pool)]

\* The first account is the administrator's; each new one takes the newest
\* announcement of the pool.
NewRow(e, w) ==
  [email |-> e, role |-> IF IsEmpty THEN "admin" ELSE "user", hash |-> w, legacy |-> FALSE,
   verifier |-> w, announcement |-> IF pool = <<>> THEN 0 ELSE Head(pool)]

\* Mutant: an id is given out again (no AUTOINCREMENT).
HighestPlusOne ==
  IF IsEmpty THEN 1 ELSE 1 + CHOOSE id \in Ids : Taken(id) /\ \A j \in Ids : Taken(j) => j <= id

NewId == nextId

\* Mutant: the pool is written back as it was.
PoolKept == pool

PopAnnouncement == IF pool = <<>> THEN pool ELSE Tail(pool)

\* Without a code only the first; the code is read from the mailbox.
Register(b, e, w) ==
  /\ Call
  /\ NewId \in Ids
  /\ Welcome(e) /\ ByEmail(e) = {}
  /\ \/ IsEmpty /\ codes' = codes /\ spent' = spent
     \/ /\ ~IsEmpty /\ Owner[e] = b /\ Sweep[<<e, b>>] # None
        /\ codes' = Hit(e, b)
        /\ spent' = spent \cup {<<Sweep[<<e, b>>].id, NewId>>}
  /\ account' = [account EXCEPT ![NewId] = NewRow(e, w)]
  /\ nextId' = NewId + 1
  /\ pool' = PopAnnouncement
  /\ member' = Admitted(browser[b].stash, NewId)
  /\ invite' = Counted(browser[b].stash, NewId)
  /\ browser' = SignedIn(TakePendingInvite(b), b, NewId)
  /\ issuedTo' = [issuedTo EXCEPT ![b] = e]
  /\ UNCHANGED <<group, rotated, sent, guesses, nextCode, waiting, now>>

\* verifyPassword of a row as it was read; a right password has a session.
Upgraded(id, r, w) ==
  [account[id] EXCEPT !.hash = IF r.legacy THEN w ELSE @,
                      !.legacy = IF r.legacy THEN FALSE ELSE @,
                      !.verifier = IF r.verifier = None THEN w ELSE @]

LoginDone(b, id, r, w, others) ==
  /\ account' = IF Taken(id) THEN [account EXCEPT ![id] = Upgraded(id, r, w)] ELSE account
  /\ browser' = SignedIn(browser, b, id)
  /\ issuedTo' = [issuedTo EXCEPT ![b] = r.email]
  /\ waiting' = others
  /\ UNCHANGED <<nextId, groupVars, pool, rotated, codeVars, now, spent>>

Login(b, e, w) ==
  /\ Call
  /\ Owner[e] = b
  /\ \E id \in ByEmail(e) :
       \/ ~account[id].legacy /\ account[id].hash = w /\ LoginDone(b, id, account[id], w, waiting)
       \/ /\ account[id].legacy
          /\ waiting' = waiting \cup {[kind |-> "login", by |-> b, id |-> id,
                                       row |-> account[id], given |-> w]}
          /\ UNCHANGED <<accountVars, groupVars, pool, rotated, codeVars, browser, now, spent,
                         issuedTo>>

LegacyVerified(h) ==
  /\ h \in waiting /\ h.kind = "login"
  /\ UNCHANGED calls
  /\ \/ h.given = h.row.hash /\ LoginDone(h.by, h.id, h.row, h.given, waiting \ {h})
     \/ /\ h.given # h.row.hash
        /\ waiting' = waiting \ {h}
        /\ UNCHANGED <<accountVars, groupVars, pool, rotated, codeVars, browser, now, spent,
                       issuedTo>>

Logout(b) ==
  /\ browser[b].cookie # 0
  /\ browser' = Cleared(browser, b)
  /\ issuedTo' = [issuedTo EXCEPT ![b] = None]
  /\ UNCHANGED <<accountVars, groupVars, pool, rotated, codeVars, waiting, now, calls, spent>>

\* The row is read before the body.
BeginPassword(b) ==
  /\ Call
  /\ Identity(b) # 0
  /\ waiting' = waiting \cup {[kind |-> "password", by |-> b, id |-> Identity(b),
                               row |-> account[Identity(b)], given |-> None]}
  /\ UNCHANGED <<accountVars, groupVars, pool, rotated, codeVars, browser, now, spent, issuedTo>>

\* Mutant: the verifier is minted once and for all.
NewPasswordOnly(id, w) == [account EXCEPT ![id].hash = w, ![id].legacy = FALSE]

NewPassword(id, w) ==
  [account EXCEPT ![id].hash = w, ![id].legacy = FALSE, ![id].verifier = w]

ChangePassword(h, old, w) ==
  /\ h \in waiting /\ h.kind = "password"
  /\ waiting' = waiting \ {h}
  /\ \/ /\ old = h.row.hash /\ w # old /\ Taken(h.id)
        /\ account' = NewPassword(h.id, w)
     \/ /\ old # h.row.hash \/ w = old \/ ~Taken(h.id) \/ \E k \in Fetched : ~Readable(k)
        /\ UNCHANGED account
  /\ UNCHANGED <<nextId, groupVars, pool, rotated, codeVars, browser, now, calls, spent, issuedTo>>

-----------------------------------------------------------------------------
(* Administrators.                                                          *)

\* requireAdmin, then the body.
BeginAdmin(b) ==
  /\ Call
  /\ IsAdmin(b)
  /\ waiting' = waiting \cup {[kind |-> "admin", by |-> b, id |-> Identity(b),
                               row |-> account[Identity(b)], given |-> None]}
  /\ UNCHANGED <<accountVars, groupVars, pool, rotated, codeVars, browser, now, spent, issuedTo>>

SetUserRole(id, r) ==
  /\ account' = [account EXCEPT ![id].role = r]
  /\ UNCHANGED <<nextId, groupVars>>

\* Another text, or none, in the place of the pool's.
UpdateAnnouncement(id) ==
  /\ account' = [account EXCEPT ![id].announcement = 0]
  /\ UNCHANGED <<nextId, groupVars>>

\* Deleted, then inserted: a group that is gone fails the insert after the
\* delete.
Replaced(id, G) ==
  {m \in member : m[1] # id} \cup (IF \A g \in G : IsGroup(g) THEN {id} \X G ELSE {})

SetUserGroups(id, G) ==
  /\ member' = Replaced(id, G)
  /\ UNCHANGED <<accountVars, group, invite>>

PatchUser(id) ==
  /\ Taken(id)
  /\ \/ UpdateAnnouncement(id)
     \/ \E r \in {"admin", "user"} : SetUserRole(id, r)
     \/ \E G \in SUBSET Groups : SetUserGroups(id, G)

CreateGroup(n) ==
  /\ NameFree(n)
  /\ \E g \in Groups : group[g] = None /\ group' = [group EXCEPT ![g] = n]
  /\ UNCHANGED <<accountVars, member, invite>>

UpdateGroup(g, n) ==
  /\ IsGroup(g) /\ NameFree(n)
  /\ group' = [group EXCEPT ![g] = n]
  /\ UNCHANGED <<accountVars, member, invite>>

AdminBody(h) ==
  /\ h \in waiting /\ h.kind = "admin"
  /\ waiting' = waiting \ {h}
  /\ \/ \E id \in Ids : PatchUser(id)
     \/ \E n \in Names : CreateGroup(n) \/ \E g \in Groups : UpdateGroup(g, n)
     \/ \E g \in Groups, until \in {None, now} : CreateInvite(g, until)
  /\ UNCHANGED <<pool, rotated, codeVars, browser, now, calls, spent, issuedTo>>

\* Mutant: the memberships of the account stay.
NoCascade(id) == {}

\* The memberships go with the account.
Cascade(id) == {m \in member : m[1] = id}

\* Nobody deletes the own account or the last administrator's.
DeleteUser(b, id) ==
  /\ Call
  /\ IsAdmin(b) /\ Taken(id) /\ Identity(b) # id
  /\ account[id].role = "admin" => CountByRole("admin") > 1
  /\ account' = [account EXCEPT ![id] = None]
  /\ member' = member \ Cascade(id)
  /\ UNCHANGED <<nextId, group, invite, pool, rotated, codeVars, browser, waiting, now, spent,
                 issuedTo>>

\* Memberships and invite links go with the group.
DeleteGroup(b, g) ==
  /\ Call
  /\ IsAdmin(b) /\ IsGroup(g)
  /\ group' = [group EXCEPT ![g] = Removed]
  /\ member' = {m \in member : m[2] # g}
  /\ invite' = [i \in Invites |->
                  IF IsLink(i) /\ invite[i].group = g THEN Removed ELSE invite[i]]
  /\ UNCHANGED <<accountVars, pool, rotated, codeVars, browser, waiting, now, spent, issuedTo>>

-----------------------------------------------------------------------------
\* A restart forgets codes, limits and what was waiting; the operator may
\* have deleted the row of the key.
Restart ==
  /\ Call
  /\ rotated' \in {rotated, TRUE}
  /\ codes' = [a \in DOMAIN codes |-> None]
  /\ sent' = [e \in Addresses |-> [n |-> 0, last |-> None]]
  /\ guesses' = [e \in Addresses |-> 0]
  /\ waiting' = {}
  /\ UNCHANGED <<accountVars, groupVars, pool, browser, now, nextCode, spent, issuedTo>>

Tick ==
  /\ now < Horizon
  /\ now' = now + 1
  /\ UNCHANGED <<accountVars, groupVars, pool, rotated, codeVars, browser, waiting, calls, spent,
                 issuedTo>>

Visitor(b) ==
  \/ \E e \in Addresses : SendCode(b, e) \/ RegisterRefused(b, e)
  \/ \E e \in Addresses, w \in Passwords : Register(b, e, w) \/ Login(b, e, w)
  \/ \E i \in Invites : VisitInvite(b, i) \/ Claim(b, i)
  \/ Logout(b) \/ BeginPassword(b)

Manager(b) ==
  \/ BeginAdmin(b)
  \/ \E id \in Ids : DeleteUser(b, id)
  \/ \E g \in Groups : DeleteGroup(b, g)
  \/ \E i \in Invites : RemoveInvite(b, i)

Next ==
  \/ \E b \in Browsers : Visitor(b) \/ Manager(b)
  \/ \E h \in waiting :
       LegacyVerified(h) \/ AdminBody(h) \/ \E v, w \in Passwords : ChangePassword(h, v, w)
  \/ Restart \/ Tick

Spec == Init /\ [][Next]_vars

-----------------------------------------------------------------------------
(* Properties.                                                              *)

\* The rows of the tables and their foreign keys.
TypeOK ==
  /\ \A id \in Ids : Taken(id) =>
       /\ id < nextId
       /\ account[id].email \in Addresses /\ account[id].role \in {"admin", "user"}
       /\ account[id].hash \in Passwords /\ account[id].legacy \in BOOLEAN
       /\ account[id].verifier \in Passwords \cup {None}
  /\ \A id, j \in Ids : Taken(id) /\ Taken(j) /\ account[id].email = account[j].email => id = j
  /\ \A g, f \in Groups : IsGroup(g) /\ group[f] = group[g] => g = f
  /\ \A m \in member : Taken(m[1]) /\ IsGroup(m[2])
  /\ \A i \in Invites : IsLink(i) =>
       IsGroup(invite[i].group) /\ invite[i].used \in Nat
  /\ now \in 0..Horizon /\ calls \in 0..MaxCalls

\* However registrations and claims mix, and whoever is taken out of the
\* group and joins again, a link admits no more than it was made for.
InviteBounded == \A i \in Invites : IsLink(i) => invite[i].used <= MaxUses

\* A browser that goes on asking for codes and guessing them is stopped: an
\* address bears no more wrong guesses than its codes allow.
GuessesBounded == \A e \in Addresses : guesses[e] <= Daily * MaxAttempts

\* One code makes one account, also when the account is deleted meanwhile.
CodeAdmitsOnce == \A x, y \in spent : x[1] = y[1] => x = y

\* A cookie never comes to stand for another person: after deletions and new
\* registrations it names the account it was issued for, or none.
SessionsStayPersonal ==
  \A b \in Browsers : Identity(b) # 0 => account[Identity(b)].email = issuedTo[b]

\* OBS signs in with the password of the account: whatever sign-ins, changes
\* and upgrades of old hashes overtake each other, the verifier is never of
\* another password than the hash.
VerifierFollowsPassword ==
  \A id \in Ids : Taken(id) =>
    account[id].verifier = IF account[id].legacy THEN None ELSE account[id].hash

\* Two accounts are never given the same announcement of the pool.
AnnouncementOnce ==
  \A id, j \in Ids : /\ Taken(id) /\ Taken(j) /\ id # j
                     /\ account[id].announcement # 0
                     => account[id].announcement # account[j].announcement

\* Whatever is made to be used a number of times is not used more often, codes,
\* guesses, links and announcements, and cookies stay with their person
\* (email-code.ts:51, register.post.ts:78, invites.ts:112, session.ts:64).
AccountsInv ==
  /\ TypeOK
  /\ InviteBounded /\ GuessesBounded /\ CodeAdmitsOnce /\ AnnouncementOnce
  /\ SessionsStayPersonal
=============================================================================
