--------------------------- MODULE Accounts_proofs ---------------------------
(***************************************************************************)
(* Proofs about Accounts for any people, addresses, groups and links, and   *)
(* any limits: what is made to be used a number of times is not used more   *)
(* often, cookies stay with their person, verifiers with their password.    *)
(***************************************************************************)
EXTENDS Accounts, FiniteSetTheorems, SequenceTheorems, TLAPS

WaiterRows == [kind : {"login", "password", "admin"}, by : Browsers, id : Ids,
               row : UserRows, given : Passwords \cup {None}]

\* The types of the tables.
TableShape ==
  /\ account \in [Ids -> UserRows \cup {None}] /\ nextId \in Nat \ {0}
  /\ group \in [Groups -> Names \cup {None, Removed}]
  /\ member \subseteq Ids \X Groups
  /\ invite \in [Invites -> LinkRows \cup {None, Removed}]
  /\ now \in 0 .. Horizon /\ calls \in 0 .. MaxCalls

\* The types of what is kept in memory, here and in browsers.
MemoryShape ==
  /\ pool \in Seq(Nat \ {0})
  /\ browser \in [Browsers -> [cookie : Nat, stash : Invites \cup {None}]]
  /\ waiting \subseteq WaiterRows
  /\ issuedTo \in [Browsers -> Addresses \cup {None}]

CodeShape ==
  /\ codes \in [Addresses \X Browsers -> CodeRows \cup {None}]
  /\ sent \in [Addresses -> [n : Nat, last : Nat \cup {None}]]
  /\ guesses \in [Addresses -> Nat]
  /\ nextCode \in Nat /\ spent \subseteq Nat \X Nat

\* An id is given once, an address has one account.
AccountsApart ==
  /\ \A id \in Ids : Taken(id) => id < nextId
  /\ \A id, j \in Ids : Taken(id) /\ Taken(j) /\ account[id].email = account[j].email => id = j

\* Members and links are of groups that are there; a link is not used too often.
LinksSound ==
  /\ \A g, f \in Groups : IsGroup(g) /\ group[f] = group[g] => g = f
  /\ \A m \in member : Taken(m[1]) /\ IsGroup(m[2])
  /\ \A i \in Invites : IsLink(i) => IsGroup(invite[i].group) /\ invite[i].used <= MaxUses

\* A code that waits has not admitted anybody, and no other has its id.
CodesFresh ==
  /\ \A a \in Addresses \X Browsers : codes[a] # None =>
       codes[a].id < nextCode /\ \A x \in spent : x[1] # codes[a].id
  /\ \A a, c \in Addresses \X Browsers :
       codes[a] # None /\ codes[c] # None /\ codes[a].id = codes[c].id => a = c
  /\ \A x \in spent : x[1] < nextCode
  /\ CodeAdmitsOnce

\* The guesses the codes of an address still allow.
Left(e) == {x \in Browsers \X (1 .. MaxAttempts) :
              codes[<<e, x[1]>>] # None /\ codes[<<e, x[1]>>].attempts < x[2]}

\* The guesses made and those left are no more than the codes sent allow.
GuessBudget ==
  \A e \in Addresses :
    /\ IsFiniteSet(Left(e)) /\ sent[e].n <= Daily
    /\ guesses[e] + Cardinality(Left(e)) <= MaxAttempts * sent[e].n
    /\ \A b \in Browsers : codes[<<e, b>>] # None => codes[<<e, b>>].attempts < MaxAttempts

\* An announcement is in the pool once, or of one account.
Announced ==
  /\ \A i, j \in 1 .. Len(pool) : pool[i] = pool[j] => i = j
  /\ \A id \in Ids, i \in 1 .. Len(pool) : Taken(id) => account[id].announcement # pool[i]
  /\ AnnouncementOnce

\* What was read of an account agrees with it as to the address, as long as it is
\* there; a cookie is of an id that was given.
CookiesSound ==
  /\ \A b \in Browsers : /\ Cookie(b) < nextId
                         /\ Taken(Cookie(b)) => account[Cookie(b)].email = issuedTo[b]
  /\ \A h \in waiting : /\ h.id < nextId
                        /\ Taken(h.id) => account[h.id].email = h.row.email

\* The verifier of a row is of its password.
Fits(r) == r.verifier = IF r.legacy THEN None ELSE r.hash
VerifiersFit ==
  /\ \A id \in Ids : Taken(id) => Fits(account[id])
  /\ \A h \in waiting : Fits(h.row) /\ (h.kind = "login" => h.row.legacy /\ h.given \in Passwords)

IInv ==
  /\ TableShape /\ MemoryShape /\ CodeShape
  /\ AccountsApart /\ LinksSound
  /\ CodesFresh /\ GuessBudget
  /\ Announced /\ CookiesSound /\ VerifiersFit

-----------------------------------------------------------------------------
(* What a step does to the accounts.                                        *)

\* A row is written anew for the same address, with its verifier.
Rewrites(id, r) ==
  /\ Taken(id) /\ r \in UserRows /\ Fits(r)
  /\ r.email = account[id].email
  /\ r.announcement \in {0, account[id].announcement}
  /\ account' = [account EXCEPT ![id] = r] /\ nextId' = nextId

LEMMA RowTypes ==
  ASSUME TableShape, NEW id, Taken(id)
  PROVE  /\ id \in Ids /\ account[id] \in UserRows /\ account[id].email \in Addresses
         /\ account[id].hash \in Passwords /\ account[id].legacy \in BOOLEAN
BY DEF TableShape, Taken, UserRows

\* A row that a sign-in brought up to date fits: a legacy row had no verifier.
LEMMA UpgradedFits ==
  ASSUME TableShape, VerifiersFit, NEW id, Taken(id), NEW r \in UserRows, Fits(r),
         NEW w \in Passwords
  PROVE  /\ Upgraded(id, r, w) \in UserRows /\ Fits(Upgraded(id, r, w))
         /\ Upgraded(id, r, w).email = account[id].email
         /\ Upgraded(id, r, w).announcement = account[id].announcement
<1> DEFINE a == account[id]
<1>1. a \in UserRows /\ Fits(a)
  BY RowTypes DEF VerifiersFit
<1>2. None \notin Passwords /\ w # None
  BY AccountsAssumption
<1> HIDE DEF a
<1>3. CASE r.legacy
  <2>1. r.verifier = None
    BY <1>3 DEF Fits
  <2>2. Upgraded(id, r, w) = [a EXCEPT !.hash = w, !.legacy = FALSE,
                                       !.verifier = IF r.verifier = None THEN w ELSE a.verifier]
    BY <1>3 DEF Upgraded, a
  <2>3. Upgraded(id, r, w) = [a EXCEPT !.hash = w, !.legacy = FALSE, !.verifier = w]
    BY <2>1, <2>2
  <2> DEFINE u == [a EXCEPT !.hash = w, !.legacy = FALSE, !.verifier = w]
  <2>4. /\ u \in UserRows /\ u.email = a.email /\ u.announcement = a.announcement
        /\ u.hash = w /\ u.legacy = FALSE /\ u.verifier = w
    BY <1>1 DEF UserRows
  <2>5. QED
    BY <2>3, <2>4 DEF Fits, a
<1>4. CASE ~r.legacy
  <2>1. r.verifier # None
    BY <1>2, <1>4 DEF Fits, UserRows
  <2>2. Upgraded(id, r, w) = [a EXCEPT !.hash = a.hash, !.legacy = a.legacy,
                                       !.verifier = a.verifier]
    BY <1>4, <2>1 DEF Upgraded, a
  <2>3. Upgraded(id, r, w) = a
    BY <1>1, <2>2 DEF UserRows
  <2>4. QED
    BY <1>1, <2>3 DEF a
<1>5. QED
  BY <1>3, <1>4

LEMMA LoginStep ==
  ASSUME TableShape, VerifiersFit, NEW b, NEW id, NEW r \in UserRows, Fits(r),
         NEW w \in Passwords, NEW others, LoginDone(b, id, r, w, others)
  PROVE  UNCHANGED <<account, nextId>> \/ \E j \in Ids, s \in UserRows : Rewrites(j, s)
<1>1. nextId' = nextId
  BY DEF LoginDone
<1>2. CASE ~Taken(id)
  BY <1>1, <1>2 DEF LoginDone
<1>3. CASE Taken(id)
  <2> DEFINE u == Upgraded(id, r, w)
  <2>1. account' = [account EXCEPT ![id] = u]
    BY <1>3 DEF LoginDone
  <2>2. /\ id \in Ids /\ u \in UserRows /\ Fits(u)
        /\ u.email = account[id].email /\ u.announcement = account[id].announcement
    BY <1>3, UpgradedFits, RowTypes
  <2> HIDE DEF u
  <2>3. Rewrites(id, u)
    BY <1>1, <1>3, <2>1, <2>2 DEF Rewrites
  <2>4. QED
    BY <2>2, <2>3
<1>4. QED
  BY <1>2, <1>3

\* What a step does to the accounts.
LEMMA AccountSteps ==
  ASSUME TableShape, MemoryShape, VerifiersFit, [Next]_vars
  PROVE  \/ UNCHANGED <<account, nextId>>
         \/ \E b \in Browsers, e \in Addresses, w \in Passwords : Register(b, e, w)
         \/ \E id \in Ids, r \in UserRows : Rewrites(id, r)
         \/ \E b \in Browsers, id \in Ids : DeleteUser(b, id)
<1> DEFINE Result == \/ UNCHANGED <<account, nextId>>
                     \/ \E id \in Ids, r \in UserRows : Rewrites(id, r)
                     \/ \E b \in Browsers, id \in Ids : DeleteUser(b, id)
<1>1. ASSUME NEW b \in Browsers, NEW e \in Addresses, NEW w \in Passwords, Login(b, e, w)
      PROVE  Result
  <2>1. PICK id \in ByEmail(e) :
          \/ LoginDone(b, id, account[id], w, waiting)
          \/ UNCHANGED accountVars
    BY <1>1 DEF Login
  <2>2. account[id] \in UserRows /\ Fits(account[id])
    BY RowTypes DEF ByEmail, VerifiersFit
  <2>3. QED
    BY <2>1, <2>2, LoginStep DEF accountVars
<1>2. ASSUME NEW h \in waiting, LegacyVerified(h) PROVE Result
  <2>1. LoginDone(h.by, h.id, h.row, h.given, waiting \ {h}) \/ UNCHANGED accountVars
    BY <1>2 DEF LegacyVerified
  <2>2. h.row \in UserRows /\ Fits(h.row) /\ h.given \in Passwords
    BY <1>2 DEF MemoryShape, WaiterRows, VerifiersFit, LegacyVerified
  <2>3. QED
    BY <2>1, <2>2, LoginStep DEF accountVars
<1>3. ASSUME NEW h \in waiting, NEW v \in Passwords, NEW w \in Passwords,
             ChangePassword(h, v, w)
      PROVE  Result
  <2>1. CASE UNCHANGED account
    BY <1>3, <2>1 DEF ChangePassword
  <2>2. CASE Taken(h.id) /\ account' = NewPassword(h.id, w)
    <3> DEFINE a == account[h.id]
               u == [a EXCEPT !.hash = w, !.legacy = FALSE, !.verifier = w]
    <3>1. h.id \in Ids /\ a \in UserRows
      BY <2>2, RowTypes
    <3>2. account' = [account EXCEPT ![h.id] = u]
      BY <2>2, <3>1 DEF NewPassword, TableShape
    <3> HIDE DEF a
    <3>3. /\ u \in UserRows /\ u.email = a.email /\ u.announcement = a.announcement
          /\ u.hash = w /\ u.legacy = FALSE /\ u.verifier = w
      BY <3>1 DEF UserRows
    <3> HIDE DEF u
    <3>4. Fits(u)
      BY <3>3 DEF Fits
    <3>5. Rewrites(h.id, u)
      BY <1>3, <2>2, <3>2, <3>3, <3>4 DEF Rewrites, a, ChangePassword
    <3>6. QED
      BY <3>1, <3>3, <3>5
  <2>3. QED
    BY <1>3, <2>1, <2>2 DEF ChangePassword
<1>4. ASSUME NEW id \in Ids, PatchUser(id) PROVE Result
  <2> DEFINE a == account[id]
  <2>1. a \in UserRows /\ Fits(a) /\ Taken(id)
    BY <1>4, RowTypes DEF PatchUser, VerifiersFit
  <2>2. account \in [Ids -> UserRows \cup {None}]
    BY DEF TableShape
  <2>3. CASE UpdateAnnouncement(id)
    <3> DEFINE u == [a EXCEPT !.announcement = 0]
    <3>1. account' = [account EXCEPT ![id] = u] /\ nextId' = nextId
      BY <2>2, <2>3 DEF UpdateAnnouncement
    <3> HIDE DEF a
    <3>2. /\ u \in UserRows /\ u.email = a.email /\ u.announcement = 0
          /\ u.hash = a.hash /\ u.legacy = a.legacy /\ u.verifier = a.verifier
      BY <2>1 DEF UserRows
    <3> HIDE DEF u
    <3>3. Rewrites(id, u)
      BY <2>1, <3>1, <3>2 DEF Rewrites, Fits, a
    <3>4. QED
      BY <3>2, <3>3
  <2>4. ASSUME NEW r \in {"admin", "user"}, SetUserRole(id, r) PROVE Result
    <3> DEFINE u == [a EXCEPT !.role = r]
    <3>1. account' = [account EXCEPT ![id] = u] /\ nextId' = nextId
      BY <2>2, <2>4 DEF SetUserRole
    <3> HIDE DEF a
    <3>2. /\ u \in UserRows /\ u.email = a.email /\ u.announcement = a.announcement
          /\ u.hash = a.hash /\ u.legacy = a.legacy /\ u.verifier = a.verifier
      BY <2>1 DEF UserRows
    <3> HIDE DEF u
    <3>3. Rewrites(id, u)
      BY <2>1, <3>1, <3>2 DEF Rewrites, Fits, a
    <3>4. QED
      BY <3>2, <3>3
  <2>5. (\E G \in SUBSET Groups : SetUserGroups(id, G)) => UNCHANGED <<account, nextId>>
    BY DEF SetUserGroups, accountVars
  <2>6. QED
    BY <1>4, <2>3, <2>4, <2>5 DEF PatchUser
<1>5. ASSUME NEW h \in waiting, AdminBody(h) PROVE Result
  <2>1. \A n \in Names : CreateGroup(n) => UNCHANGED <<account, nextId>>
    BY DEF CreateGroup, accountVars
  <2>2. \A n \in Names, g \in Groups : UpdateGroup(g, n) => UNCHANGED <<account, nextId>>
    BY DEF UpdateGroup, accountVars
  <2>3. \A until : \A g \in Groups : CreateInvite(g, until) => UNCHANGED <<account, nextId>>
    BY DEF CreateInvite, accountVars
  <2>4. QED
    BY <1>4, <1>5, <2>1, <2>2, <2>3 DEF AdminBody
<1>6. ASSUME NEW b \in Browsers, NEW id \in Ids, DeleteUser(b, id) PROVE Result
  BY <1>6
<1>7. ASSUME NEW b \in Browsers,
             \/ \E e \in Addresses : SendCode(b, e) \/ RegisterRefused(b, e)
             \/ \E i \in Invites : VisitInvite(b, i) \/ Claim(b, i) \/ RemoveInvite(b, i)
             \/ Logout(b) \/ BeginPassword(b) \/ BeginAdmin(b)
             \/ \E g \in Groups : DeleteGroup(b, g)
      PROVE  Result
  BY <1>7 DEF SendCode, RegisterRefused, VisitInvite, Claim, RemoveInvite, Logout,
     BeginPassword, BeginAdmin, DeleteGroup, accountVars
<1>8. Restart \/ Tick \/ UNCHANGED vars => Result
  BY DEF Restart, Tick, vars, accountVars
<1> HIDE DEF Result
<1>9. Result \/ \E b \in Browsers, e \in Addresses, w \in Passwords : Register(b, e, w)
  BY <1>1, <1>2, <1>3, <1>5, <1>6, <1>7, <1>8 DEF Next, Visitor, Manager
<1>10. QED
  BY <1>9 DEF Result

\* A new account takes an id that no account had.
LEMMA RegisterStep ==
  ASSUME TableShape, MemoryShape, AccountsApart,
         NEW b \in Browsers, NEW e \in Addresses, NEW w \in Passwords, Register(b, e, w)
  PROVE  /\ nextId \in Ids /\ ~Taken(nextId) /\ nextId' = nextId + 1
         /\ account' = [account EXCEPT ![nextId] = NewRow(e, w)]
         /\ NewRow(e, w) \in UserRows /\ NewRow(e, w) # None
         /\ NewRow(e, w).email = e /\ Fits(NewRow(e, w))
         /\ NewRow(e, w).announcement = IF pool = <<>> THEN 0 ELSE Head(pool)
         /\ pool' = PopAnnouncement
         /\ \A id \in Ids : Taken(id) => account[id].email # e
<1> DEFINE role == IF IsEmpty THEN "admin" ELSE "user"
           told == IF pool = <<>> THEN 0 ELSE Head(pool)
<1>1. role \in {"admin", "user"} /\ told \in Nat
  BY HeadTailProperties DEF MemoryShape
<1>2. NewRow(e, w) = [email |-> e, role |-> role, hash |-> w, legacy |-> FALSE,
                      verifier |-> w, announcement |-> told]
  BY DEF NewRow
<1> HIDE DEF role, told
<1>3. /\ NewRow(e, w) \in UserRows /\ NewRow(e, w).email = e /\ Fits(NewRow(e, w))
      /\ NewRow(e, w).announcement = told
  BY <1>1, <1>2 DEF UserRows, Fits
<1>4. NewRow(e, w) # None
  BY <1>3, AccountsAssumption
<1>5. /\ nextId \in Ids /\ nextId' = nextId + 1 /\ pool' = PopAnnouncement
      /\ account' = [account EXCEPT ![nextId] = NewRow(e, w)] /\ ByEmail(e) = {}
  BY DEF Register, NewId
<1>6. ~Taken(nextId)
  <2>1. nextId \in Nat
    BY DEF TableShape
  <2>2. QED
    BY <1>5, <2>1 DEF AccountsApart
<1>7. QED
  BY <1>3, <1>4, <1>5, <1>6 DEF ByEmail, told

\* Accounts stay unless an administrator deletes them.
LEMMA TakenKept ==
  ASSUME TableShape, MemoryShape, VerifiersFit, AccountsApart, [Next]_vars
  PROVE  \/ \A id : Taken(id) => Taken(id)'
         \/ \E b \in Browsers, id \in Ids : DeleteUser(b, id)
<1>1. account \in [Ids -> UserRows \cup {None}] /\ None \notin UserRows
  BY AccountsAssumption DEF TableShape
<1>2. CASE UNCHANGED <<account, nextId>>
  BY <1>2 DEF Taken
<1>3. ASSUME NEW b \in Browsers, NEW e \in Addresses, NEW w \in Passwords, Register(b, e, w),
             NEW id, Taken(id)
      PROVE  Taken(id)'
  BY <1>1, <1>3, RegisterStep DEF Taken
<1>4. ASSUME NEW j \in Ids, NEW r \in UserRows, Rewrites(j, r), NEW id, Taken(id)
      PROVE  Taken(id)'
  BY <1>1, <1>4 DEF Taken, Rewrites
<1>5. QED
  BY <1>2, <1>3, <1>4, AccountSteps

-----------------------------------------------------------------------------
(* Accounts stay apart.                                                     *)

LEMMA AccountShapeStep ==
  ASSUME TableShape, MemoryShape, VerifiersFit, AccountsApart, [Next]_vars
  PROVE  account' \in [Ids -> UserRows \cup {None}] /\ nextId' \in Nat \ {0}
<1>1. account \in [Ids -> UserRows \cup {None}] /\ nextId \in Nat \ {0}
  BY DEF TableShape
<1>2. CASE UNCHANGED <<account, nextId>>
  BY <1>1, <1>2
<1>3. ASSUME NEW b \in Browsers, NEW e \in Addresses, NEW w \in Passwords, Register(b, e, w)
      PROVE  account' \in [Ids -> UserRows \cup {None}] /\ nextId' \in Nat \ {0}
  BY <1>1, <1>3, RegisterStep
<1>4. ASSUME NEW id \in Ids, NEW r \in UserRows, Rewrites(id, r)
      PROVE  account' \in [Ids -> UserRows \cup {None}] /\ nextId' \in Nat \ {0}
  BY <1>1, <1>4 DEF Rewrites
<1>5. ASSUME NEW b \in Browsers, NEW id \in Ids, DeleteUser(b, id)
      PROVE  account' \in [Ids -> UserRows \cup {None}] /\ nextId' \in Nat \ {0}
  BY <1>1, <1>5 DEF DeleteUser
<1>6. QED
  BY <1>2, <1>3, <1>4, <1>5, AccountSteps

LEMMA AccountsApartStep ==
  ASSUME TableShape, MemoryShape, VerifiersFit, AccountsApart, [Next]_vars
  PROVE  AccountsApart'
<1>1. account \in [Ids -> UserRows \cup {None}] /\ nextId \in Nat \ {0}
  BY DEF TableShape
<1>2. CASE UNCHANGED <<account, nextId>>
  BY <1>2 DEF AccountsApart, Taken
<1>3. ASSUME NEW b \in Browsers, NEW e \in Addresses, NEW w \in Passwords, Register(b, e, w)
      PROVE  AccountsApart'
  <2> DEFINE r == NewRow(e, w)
  <2>1. /\ nextId \in Ids /\ nextId' = nextId + 1 /\ account' = [account EXCEPT ![nextId] = r]
        /\ r.email = e /\ r # None
        /\ \A id \in Ids : Taken(id) => account[id].email # e
    BY <1>3, RegisterStep
  <2> HIDE DEF r
  <2>2. \A id \in Ids : account'[id] = IF id = nextId THEN r ELSE account[id]
    BY <1>1, <2>1
  <2>3. ASSUME NEW id \in Ids, Taken(id)' PROVE id < nextId'
    <3>1. id \in Nat
      BY DEF Ids
    <3>2. CASE id = nextId
      BY <1>1, <2>1, <3>2
    <3>3. CASE id # nextId
      <4>1. id < nextId
        BY <2>2, <2>3, <3>3 DEF AccountsApart, Taken
      <4>2. QED
        BY <1>1, <2>1, <3>1, <4>1
    <3>4. QED
      BY <3>2, <3>3
  <2>4. ASSUME NEW id \in Ids, NEW j \in Ids, Taken(id)', Taken(j)',
               account'[id].email = account'[j].email
        PROVE  id = j
    BY <2>1, <2>2, <2>4 DEF AccountsApart, Taken
  <2>5. QED
    BY <2>3, <2>4 DEF AccountsApart
<1>4. ASSUME NEW id \in Ids, NEW r \in UserRows, Rewrites(id, r) PROVE AccountsApart'
  <2>1. \A j \in Ids : /\ Taken(j)' => Taken(j)
                       /\ Taken(j) => account'[j].email = account[j].email
    BY <1>1, <1>4 DEF Rewrites, Taken
  <2>2. nextId' = nextId
    BY <1>4 DEF Rewrites
  <2>3. QED
    BY <2>1, <2>2 DEF AccountsApart
<1>5. ASSUME NEW b \in Browsers, NEW id \in Ids, DeleteUser(b, id) PROVE AccountsApart'
  <2>1. \A j \in Ids : Taken(j)' => Taken(j) /\ account'[j] = account[j]
    BY <1>1, <1>5 DEF DeleteUser, Taken
  <2>2. nextId' = nextId
    BY <1>5 DEF DeleteUser
  <2>3. QED
    BY <2>1, <2>2 DEF AccountsApart
<1>6. QED
  BY <1>2, <1>3, <1>4, <1>5, AccountSteps

-----------------------------------------------------------------------------
(* Groups, members and invite links.                                        *)

\* A link lets an account in.
Enters(i, id) ==
  /\ Joins(i, id) /\ Taken(id)' /\ group' = group
  /\ member' = member \cup {<<id, invite[i].group>>}
  /\ invite' = [invite EXCEPT ![i].used = @ + 1]

\* A link is made or removed.
WritesLink(i, l) ==
  /\ l # Removed => IsGroup(l.group) /\ l.used <= MaxUses
  /\ invite' = [invite EXCEPT ![i] = l]
  /\ UNCHANGED <<group, member>>

\* A group is made or named.
NamesGroup(g, n) ==
  /\ NameFree(n)
  /\ group' = [group EXCEPT ![g] = n]
  /\ UNCHANGED <<member, invite>>

\* What an admission does, when the link lets somebody in and when it does not.
LEMMA AdmissionStep ==
  ASSUME NEW i \in Invites \cup {None}, NEW id, Taken(id)', group' = group,
         member' = Admitted(i, id), invite' = Counted(i, id)
  PROVE  UNCHANGED <<group, member, invite>> \/ \E j \in Invites : Enters(j, id)
<1>1. CASE ~Joins(i, id)
  BY <1>1 DEF Admitted, Counted
<1>2. CASE Joins(i, id)
  <2>1. i \in Invites
    BY <1>2 DEF Joins
  <2>2. Enters(i, id)
    BY <1>2 DEF Admitted, Counted, Enters
  <2>3. QED
    BY <2>1, <2>2
<1>3. QED
  BY <1>1, <1>2

LEMMA LinkSteps ==
  ASSUME TableShape, MemoryShape, AccountsApart, [Next]_vars
  PROVE  \/ UNCHANGED <<group, member, invite>>
         \/ \E i \in Invites, id \in Ids : Enters(i, id)
         \/ \E i \in Invites, l \in LinkRows \cup {Removed} : WritesLink(i, l)
         \/ \E g \in Groups, n \in Names : NamesGroup(g, n)
         \/ \E id \in Ids, G \in SUBSET Groups : Taken(id) /\ SetUserGroups(id, G)
         \/ \E b \in Browsers, id \in Ids : DeleteUser(b, id)
         \/ \E b \in Browsers, g \in Groups : DeleteGroup(b, g)
<1> DEFINE Result == \/ UNCHANGED <<group, member, invite>>
                     \/ \E i \in Invites, id \in Ids : Enters(i, id)
                     \/ \E i \in Invites, l \in LinkRows \cup {Removed} : WritesLink(i, l)
                     \/ \E g \in Groups, n \in Names : NamesGroup(g, n)
                     \/ \E id \in Ids, G \in SUBSET Groups : Taken(id) /\ SetUserGroups(id, G)
                     \/ \E b \in Browsers, id \in Ids : DeleteUser(b, id)
                     \/ \E b \in Browsers, g \in Groups : DeleteGroup(b, g)
<1>1. ASSUME NEW b \in Browsers, NEW e \in Addresses, NEW w \in Passwords, Register(b, e, w)
      PROVE  Result
  <2>1. PICK id \in Ids : /\ id = nextId /\ NewRow(e, w) # None
                         /\ account' = [account EXCEPT ![id] = NewRow(e, w)]
    BY <1>1, RegisterStep
  <2>2. Taken(id)'
    BY <2>1 DEF Taken, TableShape
  <2>3. PICK i \in Invites \cup {None} : i = browser[b].stash
    BY DEF MemoryShape
  <2>4. group' = group /\ member' = Admitted(i, id) /\ invite' = Counted(i, id)
    BY <1>1, <2>1, <2>3 DEF Register, NewId
  <2>5. UNCHANGED <<group, member, invite>> \/ \E j \in Invites : Enters(j, id)
    BY <2>2, <2>4, AdmissionStep
  <2>6. QED
    BY <2>1, <2>5
<1>2. ASSUME NEW b \in Browsers, NEW i \in Invites, Claim(b, i) PROVE Result
  <2>1. PICK id \in Ids : id = Identity(b) /\ Taken(id)
    BY <1>2 DEF Claim, Identity, Taken
  <2>2. group' = group /\ member' = Admitted(i, id) /\ invite' = Counted(i, id) /\ Taken(id)'
    BY <1>2, <2>1 DEF Claim, Taken, accountVars
  <2>3. UNCHANGED <<group, member, invite>> \/ \E j \in Invites : Enters(j, id)
    BY <2>2, AdmissionStep
  <2>4. QED
    BY <2>1, <2>3
<1>3. ASSUME NEW b \in Browsers, NEW i \in Invites, RemoveInvite(b, i) PROVE Result
  <2>1. WritesLink(i, Removed)
    BY <1>3 DEF RemoveInvite, WritesLink
  <2>2. QED
    BY <2>1
<1>4. ASSUME NEW g \in Groups, NEW until \in {None, now}, CreateInvite(g, until) PROVE Result
  <2>1. PICK i \in Invites :
          invite' = [invite EXCEPT ![i] = [group |-> g, used |-> 0, until |-> until]]
    BY <1>4 DEF CreateInvite
  <2> DEFINE l == [group |-> g, used |-> 0, until |-> until]
  <2>2. l \in LinkRows /\ l.group = g /\ l.used <= MaxUses
    BY AccountsAssumption DEF LinkRows, TableShape
  <2> HIDE DEF l
  <2>3. WritesLink(i, l)
    BY <1>4, <2>1, <2>2 DEF CreateInvite, WritesLink, l
  <2>4. QED
    BY <2>2, <2>3
<1>5. ASSUME NEW n \in Names, CreateGroup(n) PROVE Result
  BY <1>5 DEF CreateGroup, NamesGroup
<1>6. ASSUME NEW n \in Names, NEW g \in Groups, UpdateGroup(g, n) PROVE Result
  BY <1>6 DEF UpdateGroup, NamesGroup
<1>7. ASSUME NEW id \in Ids, PatchUser(id) PROVE Result
  BY <1>7 DEF PatchUser, UpdateAnnouncement, SetUserRole, groupVars, inviteVars
<1>8. ASSUME NEW h \in waiting, AdminBody(h) PROVE Result
  BY <1>4, <1>5, <1>6, <1>7, <1>8 DEF AdminBody
<1>9. ASSUME NEW b, NEW id, NEW r, NEW w, NEW others, LoginDone(b, id, r, w, others)
      PROVE  UNCHANGED <<group, member, invite>>
  BY <1>9 DEF LoginDone, groupVars, inviteVars
<1>10. ASSUME NEW b, NEW e, NEW w, Login(b, e, w) PROVE UNCHANGED <<group, member, invite>>
  BY <1>9, <1>10 DEF Login, groupVars, inviteVars
<1>11. ASSUME NEW h, LegacyVerified(h) PROVE UNCHANGED <<group, member, invite>>
  BY <1>9, <1>11 DEF LegacyVerified, groupVars, inviteVars
<1>12. ASSUME NEW b \in Browsers,
              \/ \E e \in Addresses : SendCode(b, e) \/ RegisterRefused(b, e)
              \/ \E i \in Invites : VisitInvite(b, i)
              \/ Logout(b) \/ BeginPassword(b) \/ BeginAdmin(b)
       PROVE  UNCHANGED <<group, member, invite>>
  BY <1>12 DEF SendCode, RegisterRefused, VisitInvite, Logout, BeginPassword, BeginAdmin,
     groupVars, inviteVars
<1>13. ASSUME NEW h, NEW v, NEW w, ChangePassword(h, v, w)
       PROVE  UNCHANGED <<group, member, invite>>
  BY <1>13 DEF ChangePassword, groupVars, inviteVars
<1>14. Restart \/ Tick \/ UNCHANGED vars => UNCHANGED <<group, member, invite>>
  BY DEF Restart, Tick, vars, groupVars, inviteVars
<1>15. \A b \in Browsers : \A id \in Ids : DeleteUser(b, id) => Result
  OBVIOUS
<1>16. \A b \in Browsers : \A g \in Groups : DeleteGroup(b, g) => Result
  OBVIOUS
<1>17. UNCHANGED <<group, member, invite>> => Result
  OBVIOUS
<1> HIDE DEF Result
<1>18. Result
  BY <1>1, <1>2, <1>3, <1>8, <1>10, <1>11, <1>12, <1>13, <1>14, <1>15, <1>16, <1>17
     DEF Next, Visitor, Manager
<1>19. QED
  BY <1>18 DEF Result

\* The tables of groups, members and links keep their types, and links and members
\* stay of groups that are there.
LEMMA LinksStep ==
  ASSUME TableShape, MemoryShape, VerifiersFit, AccountsApart, LinksSound, [Next]_vars
  PROVE  /\ group' \in [Groups -> Names \cup {None, Removed}]
         /\ member' \subseteq Ids \X Groups
         /\ invite' \in [Invites -> LinkRows \cup {None, Removed}]
         /\ LinksSound'
<1> DEFINE Result == /\ group' \in [Groups -> Names \cup {None, Removed}]
                     /\ member' \subseteq Ids \X Groups
                     /\ invite' \in [Invites -> LinkRows \cup {None, Removed}]
                     /\ LinksSound'
<1>1. /\ group \in [Groups -> Names \cup {None, Removed}]
      /\ member \subseteq Ids \X Groups
      /\ invite \in [Invites -> LinkRows \cup {None, Removed}]
  BY DEF TableShape
<1>2. MaxUses \in Nat /\ None \notin LinkRows /\ Removed \notin LinkRows
  BY AccountsAssumption
<1>3. /\ \A g, f \in Groups : IsGroup(g) /\ group[f] = group[g] => g = f
      /\ \A m \in member : Taken(m[1]) /\ IsGroup(m[2])
      /\ \A i \in Invites : IsLink(i) => IsGroup(invite[i].group) /\ invite[i].used <= MaxUses
  BY DEF LinksSound
<1>4. \A i \in Invites : IsLink(i) => /\ invite[i] \in LinkRows
                                      /\ invite[i].group \in Groups /\ invite[i].used \in Nat
  BY <1>1 DEF IsLink, LinkRows
<1>5. ASSUME UNCHANGED <<group, member, invite>>, \A id : Taken(id) => Taken(id)' PROVE Result
  BY <1>1, <1>3, <1>5 DEF LinksSound, IsGroup, IsLink
<1>6. ASSUME NEW i \in Invites, NEW id \in Ids, Enters(i, id), \A j : Taken(j) => Taken(j)'
      PROVE  Result
  <2> DEFINE l == [invite[i] EXCEPT !.used = @ + 1]
  <2>1. IsLink(i) /\ invite[i].used < MaxUses
    BY <1>6 DEF Enters, Joins, Usable
  <2>2. l \in LinkRows /\ l.group = invite[i].group /\ l.used = invite[i].used + 1
    BY <1>4, <2>1 DEF LinkRows
  <2>3. invite' = [invite EXCEPT ![i] = l]
    BY <1>1, <1>6 DEF Enters
  <2> HIDE DEF l
  <2>4. l.used <= MaxUses /\ IsGroup(l.group)
    BY <1>2, <1>3, <1>4, <2>1, <2>2
  <2>5. invite' \in [Invites -> LinkRows \cup {None, Removed}]
    BY <1>1, <2>2, <2>3
  <2>6. \A j \in Invites : IsLink(j)' =>
           IsGroup(invite'[j].group) /\ invite'[j].used <= MaxUses
    BY <1>1, <1>3, <2>3, <2>4 DEF IsLink
  <2>7. group' = group /\ member' = member \cup {<<id, invite[i].group>>} /\ Taken(id)'
    BY <1>6 DEF Enters
  <2>8. member' \subseteq Ids \X Groups
    BY <1>1, <1>4, <2>1, <2>7
  <2>9. \A m \in member' : Taken(m[1])' /\ IsGroup(m[2])
    <3>1. \A m \in member : Taken(m[1])' /\ IsGroup(m[2])
      BY <1>3, <1>6
    <3>2. IsGroup(invite[i].group)
      BY <1>3, <2>1
    <3>3. QED
      BY <2>7, <3>1, <3>2
  <2>10. QED
    BY <1>1, <1>3, <2>5, <2>6, <2>7, <2>8, <2>9 DEF LinksSound, IsGroup
<1>7. ASSUME NEW i \in Invites, NEW l \in LinkRows \cup {Removed}, WritesLink(i, l),
             \A j : Taken(j) => Taken(j)'
      PROVE  Result
  <2>1. /\ invite' = [invite EXCEPT ![i] = l] /\ group' = group /\ member' = member
        /\ l # Removed => IsGroup(l.group) /\ l.used <= MaxUses
    BY <1>7 DEF WritesLink
  <2>2. \A j \in Invites : IsLink(j)' =>
           IsGroup(invite'[j].group) /\ invite'[j].used <= MaxUses
    BY <1>1, <1>3, <2>1 DEF IsLink
  <2>3. invite' \in [Invites -> LinkRows \cup {None, Removed}]
    BY <1>1, <2>1
  <2>4. QED
    BY <1>1, <1>3, <1>7, <2>1, <2>2, <2>3 DEF LinksSound, IsGroup
<1>8. ASSUME NEW g \in Groups, NEW n \in Names, NamesGroup(g, n),
             \A j : Taken(j) => Taken(j)'
      PROVE  Result
  <2>1. /\ group' = [group EXCEPT ![g] = n] /\ member' = member /\ invite' = invite
        /\ \A f \in Groups : group[f] # n
    BY <1>8 DEF NamesGroup, NameFree
  <2>2. n \notin {None, Removed}
    BY AccountsAssumption
  <2>3. \A f : f \in Groups /\ IsGroup(f) => IsGroup(f)'
    BY <1>1, <2>1, <2>2 DEF IsGroup
  <2>4. \A d, f \in Groups : IsGroup(d)' /\ group'[f] = group'[d] => d = f
    BY <1>1, <1>3, <2>1 DEF IsGroup
  <2>5. \A m \in member' : Taken(m[1])' /\ IsGroup(m[2])'
    BY <1>1, <1>3, <1>8, <2>1, <2>3
  <2>6. \A j \in Invites : (IsLink(j) => IsGroup(invite[j].group) /\ invite[j].used <= MaxUses)'
    BY <1>3, <1>4, <2>1, <2>3 DEF IsLink
  <2>7. group' \in [Groups -> Names \cup {None, Removed}]
    BY <1>1, <2>1
  <2>8. QED
    BY <1>1, <2>1, <2>4, <2>5, <2>6, <2>7 DEF LinksSound
<1>9. ASSUME NEW id \in Ids, NEW G \in SUBSET Groups, Taken(id), SetUserGroups(id, G)
      PROVE  Result
  <2>1. member' = Replaced(id, G) /\ account' = account /\ group' = group /\ invite' = invite
    BY <1>9 DEF SetUserGroups, accountVars
  <2>2. \A m \in member' :
          \/ m \in member
          \/ m \in {id} \X G /\ \A g \in G : IsGroup(g)
    BY <2>1 DEF Replaced
  <2>3. \A m \in member' : m \in Ids \X Groups /\ Taken(m[1]) /\ IsGroup(m[2])
    BY <1>1, <1>3, <1>9, <2>2
  <2>4. QED
    BY <1>1, <1>3, <2>1, <2>3 DEF LinksSound, IsGroup, IsLink, Taken
<1>10. ASSUME NEW b \in Browsers, NEW id \in Ids, DeleteUser(b, id) PROVE Result
  <2>1. /\ account' = [account EXCEPT ![id] = None] /\ member' = member \ Cascade(id)
        /\ group' = group /\ invite' = invite
    BY <1>10 DEF DeleteUser
  <2>2. \A m \in member' : m \in member /\ m[1] # id
    BY <2>1 DEF Cascade
  <2>3. \A m \in member' : Taken(m[1])' /\ IsGroup(m[2])
    BY <1>3, <2>1, <2>2 DEF Taken, TableShape
  <2>4. QED
    BY <1>1, <1>3, <2>1, <2>2, <2>3 DEF LinksSound, IsGroup, IsLink
<1>11. ASSUME NEW b \in Browsers, NEW g \in Groups, DeleteGroup(b, g) PROVE Result
  <2>1. /\ group' = [group EXCEPT ![g] = Removed] /\ member' = {m \in member : m[2] # g}
        /\ account' = account
        /\ invite' = [i \in Invites |->
                        IF IsLink(i) /\ invite[i].group = g THEN Removed ELSE invite[i]]
    BY <1>11 DEF DeleteGroup, accountVars
  <2>2. \A f \in Groups : IsGroup(f) /\ f # g => IsGroup(f)'
    BY <1>1, <2>1 DEF IsGroup
  <2>3. \A d, f \in Groups : IsGroup(d)' /\ group'[f] = group'[d] => d = f
    BY <1>1, <1>3, <2>1 DEF IsGroup
  <2>4. \A m \in member' : Taken(m[1])' /\ IsGroup(m[2])'
    BY <1>1, <1>3, <2>1, <2>2 DEF Taken
  <2>5. \A j \in Invites :
          IsLink(j)' => IsLink(j) /\ invite[j].group # g /\ invite'[j] = invite[j]
    BY <2>1 DEF IsLink
  <2>6. \A j \in Invites : (IsLink(j) => IsGroup(invite[j].group) /\ invite[j].used <= MaxUses)'
    BY <1>3, <1>4, <2>2, <2>5
  <2>7. group' \in [Groups -> Names \cup {None, Removed}]
    BY <1>1, <2>1
  <2>8. invite' \in [Invites -> LinkRows \cup {None, Removed}]
    BY <1>1, <2>1
  <2>9. QED
    BY <1>1, <2>1, <2>3, <2>4, <2>6, <2>7, <2>8 DEF LinksSound
<1> HIDE DEF Result
<1>12. (\A id : Taken(id) => Taken(id)') => Result
  BY <1>5, <1>6, <1>7, <1>8, <1>9, <1>10, <1>11, LinkSteps
<1>13. (\E b \in Browsers, id \in Ids : DeleteUser(b, id)) => Result
  BY <1>10
<1>14. Result
  BY <1>12, <1>13, TakenKept
<1>15. QED
  BY <1>14 DEF Result

LEMMA ClockStep ==
  ASSUME TableShape, [Next]_vars
  PROVE  now' \in 0 .. Horizon /\ calls' \in 0 .. MaxCalls
<1>1. now \in 0 .. Horizon /\ calls \in 0 .. MaxCalls /\ Horizon \in Nat /\ MaxCalls \in Nat
  BY AccountsAssumption DEF TableShape
<1>2. Call => calls' \in 0 .. MaxCalls
  BY <1>1 DEF Call
<1>3. CASE now' = now /\ (Call \/ calls' = calls)
  BY <1>1, <1>2, <1>3
<1>4. CASE Tick
  BY <1>1, <1>4 DEF Tick
<1>5. CASE UNCHANGED vars
  BY <1>1, <1>5 DEF vars
<1>6. \A b, id, r, w, others : LoginDone(b, id, r, w, others) => now' = now
  BY DEF LoginDone
<1>7. ASSUME NEW b, Visitor(b) PROVE now' = now /\ (Call \/ calls' = calls)
  BY <1>6, <1>7 DEF Visitor, SendCode, RegisterRefused, Register, Login, VisitInvite, Claim,
     Logout, BeginPassword
<1>8. ASSUME NEW b, Manager(b) PROVE now' = now /\ Call
  BY <1>8 DEF Manager, BeginAdmin, DeleteUser, DeleteGroup, RemoveInvite
<1>9. ASSUME NEW h, \/ LegacyVerified(h) \/ AdminBody(h)
                    \/ \E v, w \in Passwords : ChangePassword(h, v, w)
      PROVE  now' = now /\ calls' = calls
  BY <1>6, <1>9 DEF LegacyVerified, AdminBody, ChangePassword
<1>10. Restart => now' = now /\ Call
  BY DEF Restart
<1>11. QED
  BY <1>3, <1>4, <1>5, <1>7, <1>8, <1>9, <1>10 DEF Next

-----------------------------------------------------------------------------
(* Browsers and the handlers that wait.                                     *)

\* A handler begins to wait with what it read.
Waits(h) ==
  /\ Taken(h.id) /\ h.row = account[h.id]
  /\ h.kind = "login" => h.row.legacy /\ h.given \in Passwords
  /\ waiting' = waiting \cup {h}
  /\ UNCHANGED <<account, nextId, browser, issuedTo, pool>>

\* A sign-in ends: what it read is of the account it signs in to.
SignsIn(b, id, e) ==
  /\ id < nextId /\ (Taken(id) => account[id].email = e)
  /\ browser' = SignedIn(browser, b, id) /\ issuedTo' = [issuedTo EXCEPT ![b] = e]
  /\ waiting' \subseteq waiting /\ UNCHANGED <<nextId, pool>>

Stashes(b, i) ==
  /\ browser' = [browser EXCEPT ![b].stash = i]
  /\ UNCHANGED <<waiting, issuedTo, nextId, pool>>

Stays ==
  waiting' \subseteq waiting /\ UNCHANGED <<browser, issuedTo, nextId, pool>>

LEMMA BrowserSteps ==
  ASSUME TableShape, MemoryShape, AccountsApart, CookiesSound, VerifiersFit, [Next]_vars
  PROVE  \/ Stays
         \/ \E b \in Browsers, i \in Invites \cup {None} : Stashes(b, i)
         \/ \E b \in Browsers, e \in Addresses, w \in Passwords : Register(b, e, w)
         \/ \E b \in Browsers, id \in Ids, e \in Addresses : SignsIn(b, id, e)
         \/ \E b \in Browsers : Logout(b)
         \/ \E h \in WaiterRows : Waits(h)
<1> DEFINE Result == \/ Stays
                     \/ \E b \in Browsers, i \in Invites \cup {None} : Stashes(b, i)
                     \/ \E b \in Browsers, id \in Ids, e \in Addresses : SignsIn(b, id, e)
                     \/ \E b \in Browsers : Logout(b)
                     \/ \E h \in WaiterRows : Waits(h)
<1>1. ASSUME NEW b \in Browsers, NEW e \in Addresses, NEW w \in Passwords, Login(b, e, w)
      PROVE  Result
  <2>1. PICK id \in ByEmail(e) :
          \/ LoginDone(b, id, account[id], w, waiting)
          \/ /\ account[id].legacy
             /\ waiting' = waiting \cup {[kind |-> "login", by |-> b, id |-> id,
                                          row |-> account[id], given |-> w]}
             /\ UNCHANGED <<accountVars, pool, browser, issuedTo>>
    BY <1>1 DEF Login
  <2>2. Taken(id) /\ id \in Ids /\ account[id] \in UserRows /\ account[id].email \in Addresses
    BY RowTypes DEF ByEmail
  <2>3. CASE LoginDone(b, id, account[id], w, waiting)
    <3>1. SignsIn(b, id, account[id].email)
      BY <2>2, <2>3 DEF LoginDone, SignsIn, AccountsApart
    <3>2. QED
      BY <2>2, <3>1
  <2>4. CASE /\ account[id].legacy
             /\ waiting' = waiting \cup {[kind |-> "login", by |-> b, id |-> id,
                                          row |-> account[id], given |-> w]}
             /\ UNCHANGED <<accountVars, pool, browser, issuedTo>>
    <3> DEFINE h == [kind |-> "login", by |-> b, id |-> id, row |-> account[id], given |-> w]
    <3>1. /\ h \in WaiterRows /\ h.kind = "login" /\ h.id = id /\ h.row = account[id]
          /\ h.given = w
      BY <2>2 DEF WaiterRows
    <3> HIDE DEF h
    <3>2. Waits(h)
      BY <2>2, <2>4, <3>1 DEF Waits, accountVars, h
    <3>3. QED
      BY <3>1, <3>2
  <2>5. QED
    BY <2>1, <2>3, <2>4
<1>2. ASSUME NEW h \in waiting, LegacyVerified(h) PROVE Result
  <2>1. /\ h.by \in Browsers /\ h.id \in Ids /\ h.row.email \in Addresses
        /\ h.id < nextId /\ (Taken(h.id) => account[h.id].email = h.row.email)
    BY DEF MemoryShape, WaiterRows, UserRows, CookiesSound
  <2>2. CASE LoginDone(h.by, h.id, h.row, h.given, waiting \ {h})
    <3>1. SignsIn(h.by, h.id, h.row.email)
      BY <2>1, <2>2 DEF LoginDone, SignsIn
    <3>2. QED
      BY <2>1, <3>1
  <2>3. CASE waiting' = waiting \ {h} /\ UNCHANGED <<accountVars, pool, browser, issuedTo>>
    BY <2>3 DEF Stays, accountVars
  <2>4. QED
    BY <1>2, <2>2, <2>3 DEF LegacyVerified
<1>3. ASSUME NEW b \in Browsers, NEW kind \in {"password", "admin"}, Identity(b) # 0,
             waiting' = waiting \cup {[kind |-> kind, by |-> b, id |-> Identity(b),
                                       row |-> account[Identity(b)], given |-> None]},
             UNCHANGED <<accountVars, pool, browser, issuedTo>>
      PROVE  Result
  <2>1. PICK id \in Ids : id = Identity(b) /\ Taken(id) /\ account[id] \in UserRows
    BY <1>3, RowTypes DEF Identity
  <2> DEFINE h == [kind |-> kind, by |-> b, id |-> id, row |-> account[id], given |-> None]
  <2>2. h \in WaiterRows /\ h.kind # "login" /\ h.id = id /\ h.row = account[id]
    BY <2>1 DEF WaiterRows
  <2>3. waiting' = waiting \cup {h}
    BY <1>3, <2>1
  <2> HIDE DEF h
  <2>4. Waits(h)
    BY <1>3, <2>1, <2>2, <2>3 DEF Waits, accountVars
  <2>5. QED
    BY <2>2, <2>4
<1>4. ASSUME NEW b \in Browsers, BeginPassword(b) \/ BeginAdmin(b) PROVE Result
  BY <1>3, <1>4 DEF BeginPassword, BeginAdmin, IsAdmin
<1>5. ASSUME NEW b \in Browsers, NEW e \in Addresses, RegisterRefused(b, e) PROVE Result
  <2>1. Stashes(b, None)
    BY <1>5 DEF RegisterRefused, TakePendingInvite, Stashes, accountVars
  <2>2. QED
    BY <2>1
<1>6. ASSUME NEW b \in Browsers, NEW i \in Invites, VisitInvite(b, i) PROVE Result
  <2>1. Stashes(b, i)
    BY <1>6 DEF VisitInvite, SetPendingInvite, Stashes, accountVars
  <2>2. QED
    BY <2>1
<1>7. ASSUME NEW h \in waiting, NEW v \in Passwords, NEW w \in Passwords,
             ChangePassword(h, v, w)
      PROVE  Stays
  BY <1>7 DEF ChangePassword, Stays
<1>8. ASSUME NEW h \in waiting, AdminBody(h) PROVE Stays
  <2>1. waiting' = waiting \ {h} /\ UNCHANGED <<browser, issuedTo, pool>>
    BY <1>8 DEF AdminBody
  <2>2. \A id : PatchUser(id) => nextId' = nextId
    BY DEF PatchUser, UpdateAnnouncement, SetUserRole, SetUserGroups, accountVars
  <2>3. \A n : CreateGroup(n) => nextId' = nextId
    BY DEF CreateGroup, accountVars
  <2>4. \A g, n : UpdateGroup(g, n) => nextId' = nextId
    BY DEF UpdateGroup, accountVars
  <2>5. \A g, until : CreateInvite(g, until) => nextId' = nextId
    BY DEF CreateInvite, accountVars
  <2>6. nextId' = nextId
    BY <1>8, <2>2, <2>3, <2>4, <2>5 DEF AdminBody
  <2>7. QED
    BY <2>1, <2>6 DEF Stays
<1>9. ASSUME NEW b \in Browsers,
             \/ \E e \in Addresses : SendCode(b, e)
             \/ \E i \in Invites : Claim(b, i) \/ RemoveInvite(b, i)
             \/ \E id \in Ids : DeleteUser(b, id)
             \/ \E g \in Groups : DeleteGroup(b, g)
      PROVE  Stays
  BY <1>9 DEF SendCode, Claim, RemoveInvite, DeleteUser, DeleteGroup, Stays, accountVars
<1>10. Restart \/ Tick \/ UNCHANGED vars => Stays
  BY DEF Restart, Tick, Stays, vars, accountVars
<1>11. ASSUME NEW b \in Browsers, Logout(b) PROVE Result
  BY <1>11
<1>12. Stays => Result
  OBVIOUS
<1> HIDE DEF Result
<1>13. Result \/ \E b \in Browsers, e \in Addresses, w \in Passwords : Register(b, e, w)
  BY <1>1, <1>2, <1>4, <1>5, <1>6, <1>7, <1>8, <1>9, <1>10, <1>11, <1>12
     DEF Next, Visitor, Manager
<1>14. QED
  BY <1>13 DEF Result

\* What is in a browser when an account signs in to it.
LEMMA SignedInShape ==
  ASSUME MemoryShape, NEW B, B = browser \/ \E c \in Browsers : B = TakePendingInvite(c),
         NEW b \in Browsers, NEW id \in Nat
  PROVE  SignedIn(B, b, id) \in [Browsers -> [cookie : Nat, stash : Invites \cup {None}]]
<1>1. B \in [Browsers -> [cookie : Nat, stash : Invites \cup {None}]]
  BY DEF MemoryShape, TakePendingInvite
<1>2. QED
  BY <1>1 DEF SignedIn

LEMMA MemoryShapeStep ==
  ASSUME TableShape, MemoryShape, AccountsApart, CookiesSound, VerifiersFit, [Next]_vars
  PROVE  MemoryShape'
<1> DEFINE Rows == [cookie : Nat, stash : Invites \cup {None}]
<1>1. /\ pool \in Seq(Nat \ {0}) /\ browser \in [Browsers -> Rows]
      /\ waiting \subseteq WaiterRows /\ issuedTo \in [Browsers -> Addresses \cup {None}]
  BY DEF MemoryShape
<1>2. Ids \subseteq Nat
  BY DEF Ids
<1>3. CASE Stays
  BY <1>1, <1>3 DEF Stays, MemoryShape
<1>4. ASSUME NEW b \in Browsers, NEW i \in Invites \cup {None}, Stashes(b, i)
      PROVE  MemoryShape'
  <2>1. browser' \in [Browsers -> Rows]
    BY <1>1, <1>4 DEF Stashes
  <2>2. QED
    BY <1>1, <1>4, <2>1 DEF Stashes, MemoryShape
<1>5. ASSUME NEW b \in Browsers, NEW e \in Addresses, NEW w \in Passwords, Register(b, e, w)
      PROVE  MemoryShape'
  <2>1. /\ browser' = SignedIn(TakePendingInvite(b), b, nextId) /\ waiting' = waiting
        /\ issuedTo' = [issuedTo EXCEPT ![b] = e] /\ pool' = PopAnnouncement
    BY <1>5 DEF Register, NewId
  <2>2. browser' \in [Browsers -> Rows]
    BY <2>1, SignedInShape DEF TableShape
  <2>3. pool' \in Seq(Nat \ {0})
    BY <1>1, <2>1, HeadTailProperties DEF PopAnnouncement
  <2>4. issuedTo' \in [Browsers -> Addresses \cup {None}]
    BY <1>1, <2>1
  <2>5. QED
    BY <1>1, <2>1, <2>2, <2>3, <2>4 DEF MemoryShape
<1>6. ASSUME NEW b \in Browsers, NEW id \in Ids, NEW e \in Addresses, SignsIn(b, id, e)
      PROVE  MemoryShape'
  <2>1. browser' \in [Browsers -> Rows]
    BY <1>2, <1>6, SignedInShape DEF SignsIn
  <2>2. QED
    BY <1>1, <1>6, <2>1 DEF SignsIn, MemoryShape
<1>7. ASSUME NEW b \in Browsers, Logout(b) PROVE MemoryShape'
  <2>1. browser' \in [Browsers -> Rows]
    BY <1>1, <1>7 DEF Logout, Cleared
  <2>2. QED
    BY <1>1, <1>7, <2>1 DEF Logout, MemoryShape
<1>8. ASSUME NEW h \in WaiterRows, Waits(h) PROVE MemoryShape'
  BY <1>1, <1>8 DEF Waits, MemoryShape
<1>9. QED
  BY <1>3, <1>4, <1>5, <1>6, <1>7, <1>8, BrowserSteps

-----------------------------------------------------------------------------
(* Cookies, verifiers and announcements.                                    *)

\* Whoever has an id that was given keeps the address: an id is not given again.
LEMMA EmailsKept ==
  ASSUME TableShape, MemoryShape, VerifiersFit, AccountsApart, [Next]_vars
  PROVE  /\ nextId <= nextId'
         /\ \A id : id < nextId /\ Taken(id)' => Taken(id) /\ account'[id].email = account[id].email
<1>1. account \in [Ids -> UserRows \cup {None}] /\ nextId \in Nat \ {0} /\ None \notin UserRows
  BY AccountsAssumption DEF TableShape
<1>2. CASE UNCHANGED <<account, nextId>>
  BY <1>1, <1>2 DEF Taken
<1>3. ASSUME NEW b \in Browsers, NEW e \in Addresses, NEW w \in Passwords, Register(b, e, w)
      PROVE  /\ nextId <= nextId'
             /\ \A id : id < nextId /\ Taken(id)' =>
                          Taken(id) /\ account'[id].email = account[id].email
  BY <1>1, <1>3, RegisterStep DEF Taken
<1>4. ASSUME NEW j \in Ids, NEW r \in UserRows, Rewrites(j, r)
      PROVE  /\ nextId <= nextId'
             /\ \A id : Taken(id)' => Taken(id) /\ account'[id].email = account[id].email
  BY <1>1, <1>4 DEF Taken, Rewrites
<1>5. ASSUME NEW b \in Browsers, NEW j \in Ids, DeleteUser(b, j)
      PROVE  /\ nextId <= nextId'
             /\ \A id : Taken(id)' => Taken(id) /\ account'[id].email = account[id].email
  BY <1>1, <1>5 DEF Taken, DeleteUser
<1>6. QED
  BY <1>2, <1>3, <1>4, <1>5, AccountSteps

LEMMA CookiesSoundStep ==
  ASSUME TableShape, MemoryShape, AccountsApart, CookiesSound, VerifiersFit, [Next]_vars
  PROVE  CookiesSound'
<1>1. /\ \A id \in Nat :
           /\ id < nextId => id < nextId'
           /\ id < nextId /\ Taken(id)' =>
                Taken(id) /\ account'[id].email = account[id].email
  <2>1. nextId <= nextId' /\ nextId \in Nat /\ nextId' \in Nat
    BY EmailsKept, AccountShapeStep DEF TableShape
  <2>2. \A id \in Nat : id < nextId => id < nextId'
    BY <2>1
  <2>3. QED
    BY <2>2, EmailsKept
<1>2. /\ \A b \in Browsers : /\ browser[b].cookie < nextId
                             /\ Taken(browser[b].cookie) =>
                                  account[browser[b].cookie].email = issuedTo[b]
      /\ \A h \in waiting : h.id < nextId /\ (Taken(h.id) => account[h.id].email = h.row.email)
  BY DEF CookiesSound, Cookie
<1>3. \A h \in waiting : h.id < nextId' /\ (Taken(h.id)' => account'[h.id].email = h.row.email)
  <2>1. \A h \in waiting : h.id \in Nat
    BY DEF MemoryShape, WaiterRows, Ids
  <2>2. QED
    BY <1>1, <1>2, <2>1
<1>4. ASSUME NEW b \in Browsers, browser'[b].cookie = browser[b].cookie, issuedTo'[b] = issuedTo[b]
      PROVE  /\ browser'[b].cookie < nextId'
             /\ Taken(browser[b].cookie)' =>
                  account'[browser'[b].cookie].email = issuedTo'[b]
  <2>1. PICK id \in Nat : id = browser[b].cookie
    BY DEF MemoryShape
  <2>2. id < nextId' /\ (Taken(id)' => account'[id].email = issuedTo[b])
    BY <1>1, <1>2, <2>1
  <2>3. Taken(browser[b].cookie)' <=> Taken(id)'
    BY <1>4, <2>1 DEF Taken
  <2>4. QED
    BY <1>4, <2>1, <2>2, <2>3
<1>5. ASSUME \A b \in Browsers : /\ browser'[b].cookie = browser[b].cookie
                                 /\ issuedTo'[b] = issuedTo[b],
             waiting' \subseteq waiting
      PROVE  CookiesSound'
  BY <1>3, <1>4, <1>5 DEF CookiesSound, Cookie
<1>6. CASE Stays
  BY <1>5, <1>6 DEF Stays
<1>7. ASSUME NEW b \in Browsers, NEW i \in Invites \cup {None}, Stashes(b, i)
      PROVE  CookiesSound'
  <2>1. \A c \in Browsers : browser'[c].cookie = browser[c].cookie
    BY <1>7 DEF Stashes, MemoryShape
  <2>2. QED
    BY <1>5, <1>7, <2>1 DEF Stashes
\* A browser that is signed in to an account with the address it is issued for.
<1>8. ASSUME NEW b \in Browsers, NEW id \in Nat, NEW e, id < nextId',
             \A c \in Browsers : browser'[c].cookie = IF c = b THEN id ELSE browser[c].cookie,
             Taken(id)' => account'[id].email = e,
             issuedTo' = [issuedTo EXCEPT ![b] = e], waiting' \subseteq waiting
      PROVE  CookiesSound'
  <2>1. /\ issuedTo'[b] = e /\ browser'[b].cookie = id
        /\ \A c \in Browsers \ {b} : /\ issuedTo'[c] = issuedTo[c]
                                     /\ browser'[c].cookie = browser[c].cookie
    BY <1>8 DEF MemoryShape
  <2>2. Taken(browser[b].cookie)' <=> Taken(id)'
    BY <2>1 DEF Taken
  <2>3. /\ browser'[b].cookie < nextId'
        /\ Taken(browser[b].cookie)' => account'[browser'[b].cookie].email = issuedTo'[b]
    BY <1>8, <2>1, <2>2
  <2>4. \A c \in Browsers \ {b} :
           /\ browser'[c].cookie < nextId'
           /\ Taken(browser[c].cookie)' => account'[browser'[c].cookie].email = issuedTo'[c]
    BY <1>4, <2>1
  <2>5. QED
    BY <1>3, <1>8, <2>3, <2>4 DEF CookiesSound, Cookie
<1>9. ASSUME NEW b \in Browsers, NEW e \in Addresses, NEW w \in Passwords, Register(b, e, w)
      PROVE  CookiesSound'
  <2>1. PICK id \in Ids :
          /\ id = nextId /\ nextId' = id + 1
          /\ account' = [account EXCEPT ![id] = NewRow(e, w)] /\ NewRow(e, w).email = e
    BY <1>9, RegisterStep
  <2>2. id \in Nat /\ id < nextId'
    BY <2>1 DEF TableShape
  <2>3. account'[id].email = e
    BY <2>1 DEF TableShape
  <2>4. /\ browser' = SignedIn(TakePendingInvite(b), b, id) /\ waiting' = waiting
        /\ issuedTo' = [issuedTo EXCEPT ![b] = e]
    BY <1>9, <2>1 DEF Register, NewId
  <2>5. \A c \in Browsers : browser'[c].cookie = IF c = b THEN id ELSE browser[c].cookie
    <3>1. \A c \in Browsers : SignedIn(TakePendingInvite(b), b, id)[c].cookie
                                 = IF c = b THEN id ELSE browser[c].cookie
      BY <2>2 DEF SignedIn, TakePendingInvite, MemoryShape
    <3>2. QED
      BY <2>4, <3>1
  <2>6. QED
    BY <1>8, <2>2, <2>3, <2>4, <2>5
<1>10. ASSUME NEW b \in Browsers, NEW id \in Ids, NEW e \in Addresses, SignsIn(b, id, e)
       PROVE  CookiesSound'
  <2>1. id \in Nat
    BY DEF Ids
  <2>2. id < nextId' /\ (Taken(id)' => account'[id].email = e)
    BY <1>1, <1>10, <2>1 DEF SignsIn
  <2>3. \A c \in Browsers : browser'[c].cookie = IF c = b THEN id ELSE browser[c].cookie
    <3>1. \A c \in Browsers : SignedIn(browser, b, id)[c].cookie
                                 = IF c = b THEN id ELSE browser[c].cookie
      BY <2>1 DEF SignedIn, MemoryShape
    <3>2. QED
      BY <1>10, <3>1 DEF SignsIn
  <2>4. QED
    BY <1>8, <1>10, <2>1, <2>2, <2>3 DEF SignsIn
<1>11. ASSUME NEW b \in Browsers, Logout(b) PROVE CookiesSound'
  <2>1. \A c \in Browsers : browser'[c].cookie = IF c = b THEN 0 ELSE browser[c].cookie
    BY <1>11 DEF Logout, Cleared, MemoryShape
  <2>2. 0 < nextId' /\ ~Taken(0)'
    BY AccountShapeStep DEF Taken, Ids
  <2>3. issuedTo' = [issuedTo EXCEPT ![b] = None] /\ waiting' = waiting
    BY <1>11 DEF Logout
  <2>4. QED
    BY <1>8, <2>1, <2>2, <2>3
<1>12. ASSUME NEW h \in WaiterRows, Waits(h) PROVE CookiesSound'
  <2>1. /\ h.id < nextId' /\ (Taken(h.id)' => account'[h.id].email = h.row.email)
    BY <1>1, <1>12 DEF Waits, AccountsApart, WaiterRows, Ids
  <2>2. waiting' = waiting \cup {h} /\ UNCHANGED <<browser, issuedTo>>
    BY <1>12 DEF Waits
  <2>3. QED
    BY <1>3, <1>4, <2>1, <2>2 DEF CookiesSound, Cookie
<1>13. QED
  BY <1>6, <1>7, <1>9, <1>10, <1>11, <1>12, BrowserSteps

LEMMA VerifiersFitStep ==
  ASSUME TableShape, MemoryShape, AccountsApart, CookiesSound, VerifiersFit, [Next]_vars
  PROVE  VerifiersFit'
<1>1. account \in [Ids -> UserRows \cup {None}]
  BY DEF TableShape
<1>2. \A id \in Ids : Taken(id)' => Fits(account'[id])
  <2>1. CASE UNCHANGED <<account, nextId>>
    BY <2>1 DEF VerifiersFit, Taken
  <2>2. ASSUME NEW b \in Browsers, NEW e \in Addresses, NEW w \in Passwords, Register(b, e, w),
               NEW id \in Ids, Taken(id)'
        PROVE  Fits(account'[id])
    BY <1>1, <2>2, RegisterStep DEF VerifiersFit, Taken
  <2>3. ASSUME NEW j \in Ids, NEW r \in UserRows, Rewrites(j, r), NEW id \in Ids, Taken(id)'
        PROVE  Fits(account'[id])
    BY <1>1, <2>3 DEF VerifiersFit, Taken, Rewrites
  <2>4. ASSUME NEW b \in Browsers, NEW j \in Ids, DeleteUser(b, j), NEW id \in Ids, Taken(id)'
        PROVE  Fits(account'[id])
    BY <1>1, <2>4 DEF VerifiersFit, Taken, DeleteUser
  <2>5. QED
    BY <2>1, <2>2, <2>3, <2>4, AccountSteps
<1>3. ASSUME NEW h \in waiting'
      PROVE  Fits(h.row) /\ (h.kind = "login" => h.row.legacy /\ h.given \in Passwords)
  <2>1. CASE h \in waiting
    BY <2>1 DEF VerifiersFit
  <2>2. CASE h \notin waiting
    <3>1. Waits(h)
      BY <1>3, <2>2, BrowserSteps DEF Stays, Stashes, Register, SignsIn, Logout, Waits
    <3>2. QED
      BY <3>1 DEF Waits, VerifiersFit, Taken
  <2>3. QED
    BY <2>1, <2>2
<1>4. QED
  BY <1>2, <1>3 DEF VerifiersFit

LEMMA AnnouncedStep ==
  ASSUME TableShape, MemoryShape, AccountsApart, CookiesSound, VerifiersFit, Announced,
         [Next]_vars
  PROVE  Announced'
<1>1. account \in [Ids -> UserRows \cup {None}] /\ None \notin UserRows /\ pool \in Seq(Nat \ {0})
  BY AccountsAssumption DEF TableShape, MemoryShape
<1>2. /\ \A i, j \in 1 .. Len(pool) : pool[i] = pool[j] => i = j
      /\ \A id \in Ids, i \in 1 .. Len(pool) : Taken(id) => account[id].announcement # pool[i]
      /\ \A id, j \in Ids : /\ Taken(id) /\ Taken(j) /\ id # j
                            /\ account[id].announcement # 0
                            => account[id].announcement # account[j].announcement
  BY DEF Announced, AnnouncementOnce
<1>3. CASE pool' = pool /\ \E b \in Browsers, id \in Ids : DeleteUser(b, id)
  <2>1. PICK b \in Browsers, id \in Ids : DeleteUser(b, id)
    BY <1>3
  <2>2. \A j \in Ids : Taken(j)' => Taken(j) /\ account'[j] = account[j]
    BY <1>1, <2>1 DEF DeleteUser, Taken
  <2>3. QED
    BY <1>2, <1>3, <2>2 DEF Announced, AnnouncementOnce
<1>4. CASE pool' = pool /\ UNCHANGED <<account, nextId>>
  BY <1>2, <1>4 DEF Announced, AnnouncementOnce, Taken
<1>5. CASE pool' = pool /\ \E id \in Ids, r \in UserRows : Rewrites(id, r)
  <2>1. PICK id \in Ids, r \in UserRows : Rewrites(id, r)
    BY <1>5
  <2>2. \A j \in Ids : /\ Taken(j)' => Taken(j)
                       /\ Taken(j) => account'[j].announcement \in {0, account[j].announcement}
    BY <1>1, <2>1 DEF Rewrites, Taken
  <2>3. \A i \in 1 .. Len(pool) : pool[i] # 0
    BY <1>1
  <2>4. QED
    BY <1>2, <1>5, <2>2, <2>3 DEF Announced, AnnouncementOnce
<1>6. ASSUME NEW b \in Browsers, NEW e \in Addresses, NEW w \in Passwords, Register(b, e, w)
      PROVE  Announced'
  <2> DEFINE r == NewRow(e, w)
  <2>1. PICK id \in Ids :
          /\ id = nextId /\ account' = [account EXCEPT ![id] = r] /\ ~Taken(id)
          /\ r.announcement = IF pool = <<>> THEN 0 ELSE Head(pool)
          /\ pool' = PopAnnouncement
    BY <1>6, RegisterStep
  <2> HIDE DEF r
  <2>2. \A j \in Ids : account'[j] = IF j = id THEN r ELSE account[j]
    BY <1>1, <2>1
  <2>3. CASE pool = <<>>
    <3>1. pool' = pool /\ Len(pool) = 0 /\ r.announcement = 0
      BY <2>1, <2>3 DEF PopAnnouncement
    <3>2. QED
      BY <1>2, <2>2, <3>1 DEF Announced, AnnouncementOnce, Taken
  <2>4. CASE pool # <<>>
    <3>1. /\ Len(pool) \in Nat /\ Len(pool) > 0 /\ r.announcement = pool[1]
          /\ Len(pool') = Len(pool) - 1
          /\ \A i \in 1 .. Len(pool') : pool'[i] = pool[i + 1]
      BY <1>1, <2>1, <2>4, HeadTailProperties DEF PopAnnouncement
    <3>2. \A i \in 1 .. Len(pool') : i + 1 \in 1 .. Len(pool) /\ i + 1 # 1
      BY <3>1
    <3>3. 1 \in 1 .. Len(pool)
      BY <3>1
    <3>4. \A i, j \in 1 .. Len(pool') : pool'[i] = pool'[j] => i = j
      BY <1>2, <3>1, <3>2
    <3>5. \A i \in 1 .. Len(pool') : pool'[i] # r.announcement
      BY <1>2, <3>1, <3>2, <3>3
    <3>6. ASSUME NEW j \in Ids, Taken(j)', NEW i \in 1 .. Len(pool')
          PROVE  account'[j].announcement # pool'[i]
      BY <1>2, <2>2, <3>1, <3>2, <3>5, <3>6 DEF Taken
    <3>7. AnnouncementOnce'
      <4>1. \A j \in Ids : Taken(j)' /\ j # id => account'[j].announcement # r.announcement
        BY <1>2, <2>2, <3>1, <3>3 DEF Taken
      <4>2. QED
        BY <1>2, <2>2, <4>1 DEF AnnouncementOnce, Taken
    <3>8. QED
      BY <3>4, <3>6, <3>7 DEF Announced
  <2>5. QED
    BY <2>3, <2>4
<1>7. \/ pool' = pool
      \/ \E b \in Browsers, e \in Addresses, w \in Passwords : Register(b, e, w)
  BY BrowserSteps DEF Stays, Stashes, SignsIn, Logout, Waits
<1>8. QED
  BY <1>3, <1>4, <1>5, <1>6, <1>7, AccountSteps

-----------------------------------------------------------------------------
(* Codes and guesses.                                                       *)

Spots == Addresses \X Browsers

\* A guess counts against a code.
Guesses(b, e) ==
  /\ codes' = Missed(e, b)
  /\ guesses' = [guesses EXCEPT ![e] = @ + (IF Sweep[<<e, b>>] = None THEN 0 ELSE 1)]
  /\ UNCHANGED <<sent, nextCode, spent>>

LEMMA CodeSteps ==
  ASSUME [Next]_vars
  PROVE  \/ UNCHANGED <<codes, sent, guesses, nextCode, spent>>
         \/ \E b \in Browsers, e \in Addresses : SendCode(b, e) \/ Guesses(b, e)
         \/ \E b \in Browsers, e \in Addresses, w \in Passwords : Register(b, e, w)
         \/ Restart
<1> DEFINE Same == UNCHANGED <<codes, sent, guesses, nextCode, spent>>
<1>1. \A b, id, r, w, others : LoginDone(b, id, r, w, others) => Same
  BY DEF LoginDone, codeVars
<1>2. ASSUME NEW b \in Browsers, NEW e \in Addresses, RegisterRefused(b, e)
      PROVE  Same \/ Guesses(b, e)
  BY <1>2 DEF RegisterRefused, Guesses
<1>3. ASSUME NEW b \in Browsers,
             \/ \E e \in Addresses, w \in Passwords : Login(b, e, w)
             \/ \E i \in Invites : VisitInvite(b, i) \/ Claim(b, i)
             \/ Logout(b) \/ BeginPassword(b)
      PROVE  Same
  BY <1>1, <1>3 DEF Login, VisitInvite, Claim, Logout, BeginPassword, codeVars
<1>4. ASSUME NEW b \in Browsers, Manager(b) PROVE Same
  BY <1>4 DEF Manager, BeginAdmin, DeleteUser, DeleteGroup, RemoveInvite, codeVars
<1>5. ASSUME NEW h, \/ LegacyVerified(h) \/ AdminBody(h)
                    \/ \E v, w \in Passwords : ChangePassword(h, v, w)
      PROVE  Same
  BY <1>1, <1>5 DEF LegacyVerified, AdminBody, ChangePassword, codeVars
<1>6. Tick \/ UNCHANGED vars => Same
  BY DEF Tick, vars, codeVars
<1> HIDE DEF Same
<1>7. \/ Same \/ Restart
      \/ \E b \in Browsers, e \in Addresses : SendCode(b, e) \/ Guesses(b, e)
      \/ \E b \in Browsers, e \in Addresses, w \in Passwords : Register(b, e, w)
  BY <1>2, <1>3, <1>4, <1>5, <1>6 DEF Next, Visitor
<1>8. QED
  BY <1>7 DEF Same

\* A swept code is gone or as it was.
LEMMA Swept ==
  ASSUME CodeShape
  PROVE  /\ Sweep \in [Spots -> CodeRows \cup {None}]
         /\ \A a \in Spots : Sweep[a] \in {None, codes[a]}
BY DEF CodeShape, Sweep, Spots

\* What the operations on codes leave of each.
LEMMA CodeOperations ==
  ASSUME CodeShape, TableShape, NEW b \in Browsers, NEW e \in Addresses
  PROVE  /\ Hit(e, b) \in [Spots -> CodeRows \cup {None}]
         /\ \A a \in Spots : Hit(e, b)[a] \in {None, codes[a]}
         /\ Hit(e, b)[<<e, b>>] = None
         /\ IssueCode(e, b) \in [Spots -> CodeRows \cup {None}]
         /\ \A a \in Spots \ {<<e, b>>} : IssueCode(e, b)[a] \in {None, codes[a]}
         /\ IssueCode(e, b)[<<e, b>>] = [id |-> nextCode, until |-> now + CodeTTL, attempts |-> 0]
         /\ IssueCode(e, b)[<<e, b>>] \in CodeRows
<1> DEFINE c == [id |-> nextCode, until |-> now + CodeTTL, attempts |-> 0]
           S == Sweep
<1>1. c \in CodeRows
  <2>1. now \in Nat /\ CodeTTL \in Nat /\ nextCode \in Nat
    BY AccountsAssumption DEF TableShape, CodeShape
  <2>2. now + CodeTTL \in Nat
    BY <2>1
  <2>3. QED
    BY <2>1, <2>2 DEF CodeRows
<1>2. /\ S \in [Spots -> CodeRows \cup {None}] /\ <<e, b>> \in Spots
      /\ \A a \in Spots : S[a] \in {None, codes[a]}
  BY Swept DEF Spots
<1>3. Hit(e, b) = [S EXCEPT ![<<e, b>>] = None] /\ IssueCode(e, b) = [S EXCEPT ![<<e, b>>] = c]
  BY DEF Hit, IssueCode
<1> HIDE DEF c, S
<1>4. QED
  BY <1>1, <1>2, <1>3 DEF c

\* A wrong guess leaves the others, and counts or drops the code.
LEMMA MissedOperation ==
  ASSUME CodeShape, NEW b \in Browsers, NEW e \in Addresses
  PROVE  /\ Missed(e, b) \in [Spots -> CodeRows \cup {None}]
         /\ \A a \in Spots \ {<<e, b>>} : Missed(e, b)[a] \in {None, codes[a]}
         /\ Sweep[<<e, b>>] = None => Missed(e, b)[<<e, b>>] = None
         /\ Missed(e, b)[<<e, b>>] # None =>
              /\ codes[<<e, b>>] # None
              /\ Missed(e, b)[<<e, b>>].id = codes[<<e, b>>].id
              /\ Missed(e, b)[<<e, b>>].attempts = codes[<<e, b>>].attempts + 1
              /\ codes[<<e, b>>].attempts + 1 < MaxAttempts
<1> DEFINE S == Sweep
           c == S[<<e, b>>]
           d == IF c = None \/ c.attempts + 1 >= MaxAttempts THEN None
                ELSE [c EXCEPT !.attempts = c.attempts + 1]
<1>1. /\ S \in [Spots -> CodeRows \cup {None}] /\ <<e, b>> \in Spots
      /\ \A a \in Spots : S[a] \in {None, codes[a]}
  BY Swept DEF Spots
<1>2. Missed(e, b) = [S EXCEPT ![<<e, b>>] = d]
  BY DEF Missed
<1>3. c \in CodeRows \cup {None} /\ c \in {None, codes[<<e, b>>]}
  BY <1>1
<1> HIDE DEF S
<1>4. CASE c = None
  BY <1>1, <1>2, <1>4 DEF S
<1>5. CASE c # None
  <2>1. c \in CodeRows /\ c = codes[<<e, b>>] /\ c.attempts \in Nat /\ MaxAttempts \in Nat
    BY <1>3, <1>5, AccountsAssumption DEF CodeRows
  <2> HIDE DEF c
  <2>2. CASE c.attempts + 1 >= MaxAttempts
    BY <1>1, <1>2, <1>5, <2>1, <2>2 DEF S, c
  <2>3. CASE c.attempts + 1 < MaxAttempts
    <3> DEFINE u == [c EXCEPT !.attempts = c.attempts + 1]
    <3>1. d = u
      BY <1>5, <2>1, <2>3
    <3>2. u \in CodeRows /\ u.id = c.id /\ u.attempts = c.attempts + 1
      BY <2>1 DEF CodeRows
    <3> HIDE DEF u, d
    <3>3. QED
      BY <1>1, <1>2, <1>5, <2>1, <2>3, <3>1, <3>2 DEF S, c
  <2>4. QED
    BY <2>1, <2>2, <2>3
<1>6. QED
  BY <1>4, <1>5

LEMMA CodeShapeStep ==
  ASSUME TableShape, MemoryShape, AccountsApart, CodeShape, [Next]_vars
  PROVE  CodeShape'
<1>1. /\ codes \in [Spots -> CodeRows \cup {None}]
      /\ sent \in [Addresses -> [n : Nat, last : Nat \cup {None}]]
      /\ guesses \in [Addresses -> Nat]
      /\ nextCode \in Nat /\ spent \subseteq Nat \X Nat
  BY DEF CodeShape, Spots
<1>2. CASE UNCHANGED <<codes, sent, guesses, nextCode, spent>>
  BY <1>1, <1>2 DEF CodeShape, Spots
<1>3. ASSUME NEW b \in Browsers, NEW e \in Addresses, SendCode(b, e) PROVE CodeShape'
  <2>1. codes' \in [Spots -> CodeRows \cup {None}]
    BY <1>3, CodeOperations DEF SendCode
  <2>2. now \in Nat
    BY AccountsAssumption DEF TableShape
  <2>3. sent' \in [Addresses -> [n : Nat, last : Nat \cup {None}]]
    BY <1>1, <1>3, <2>2 DEF SendCode
  <2>4. nextCode' \in Nat
    BY <1>1, <1>3 DEF SendCode
  <2>5. QED
    BY <1>1, <1>3, <2>1, <2>3, <2>4 DEF SendCode, CodeShape, Spots
<1>4. ASSUME NEW b \in Browsers, NEW e \in Addresses, Guesses(b, e) PROVE CodeShape'
  <2>1. codes' \in [Spots -> CodeRows \cup {None}]
    BY <1>4, MissedOperation DEF Guesses
  <2>2. guesses' \in [Addresses -> Nat]
    BY <1>1, <1>4 DEF Guesses
  <2>3. QED
    BY <1>1, <1>4, <2>1, <2>2 DEF Guesses, CodeShape, Spots
<1>5. ASSUME NEW b \in Browsers, NEW e \in Addresses, NEW w \in Passwords, Register(b, e, w)
      PROVE  CodeShape'
  <2>1. UNCHANGED <<sent, guesses, nextCode>>
    BY <1>5 DEF Register
  <2>2. CASE codes' = codes /\ spent' = spent
    BY <1>1, <2>1, <2>2 DEF CodeShape, Spots
  <2>3. CASE /\ Sweep[<<e, b>>] # None /\ codes' = Hit(e, b)
             /\ spent' = spent \cup {<<Sweep[<<e, b>>].id, NewId>>}
    <3>1. Sweep[<<e, b>>] \in CodeRows
      BY <2>3, Swept DEF Spots
    <3>2. Sweep[<<e, b>>].id \in Nat /\ NewId \in Nat
      BY <3>1 DEF CodeRows, NewId, TableShape
    <3>3. codes' \in [Spots -> CodeRows \cup {None}]
      BY <2>3, CodeOperations
    <3>4. QED
      BY <1>1, <2>1, <2>3, <3>2, <3>3 DEF CodeShape, Spots
  <2>4. QED
    BY <1>5, <2>2, <2>3 DEF Register
<1>6. CASE Restart
  BY <1>1, <1>6 DEF Restart, CodeShape, Spots
<1>7. QED
  BY <1>2, <1>3, <1>4, <1>5, <1>6, CodeSteps

LEMMA CodesFreshStep ==
  ASSUME TableShape, MemoryShape, AccountsApart, CodeShape, CodesFresh, [Next]_vars
  PROVE  CodesFresh'
<1>1. /\ nextCode \in Nat /\ spent \subseteq Nat \X Nat
      /\ \A a \in Spots : codes[a] # None =>
           codes[a].id < nextCode /\ \A x \in spent : x[1] # codes[a].id
      /\ \A a, c \in Spots :
           codes[a] # None /\ codes[c] # None /\ codes[a].id = codes[c].id => a = c
      /\ \A x \in spent : x[1] < nextCode
      /\ \A x, y \in spent : x[1] = y[1] => x = y
  BY DEF CodesFresh, CodeShape, Spots, CodeAdmitsOnce
<1>2. \A a \in Spots : codes[a] # None => codes[a].id \in Nat
  BY DEF CodeShape, CodeRows, Spots
<1>3. ASSUME \A a \in Spots : codes'[a] # None => codes[a] # None /\ codes'[a].id = codes[a].id,
             nextCode' = nextCode, spent' = spent
      PROVE  CodesFresh'
  BY <1>1, <1>3 DEF CodesFresh, Spots, CodeAdmitsOnce
<1>4. CASE UNCHANGED <<codes, sent, guesses, nextCode, spent>>
  BY <1>3, <1>4
<1>5. ASSUME NEW b \in Browsers, NEW e \in Addresses, SendCode(b, e) PROVE CodesFresh'
  <2> DEFINE s == <<e, b>>
  <2>1. codes' = IssueCode(e, b) /\ nextCode' = nextCode + 1 /\ spent' = spent
    BY <1>5 DEF SendCode
  <2>2. /\ codes'[s].id = nextCode
        /\ \A a \in Spots \ {s} : codes'[a] \in {None, codes[a]}
    BY <2>1, CodeOperations
  <2>3. \A n \in Nat : n < nextCode => n < nextCode' /\ n # nextCode
    BY <1>1, <2>1
  <2>4. nextCode < nextCode'
    BY <1>1, <2>1
  <2>5. \A x \in spent : x[1] \in Nat
    BY <1>1
  <2> HIDE DEF s
  <2>6. \A a \in Spots : codes'[a] # None =>
           codes'[a].id < nextCode' /\ \A x \in spent : x[1] # codes'[a].id
    BY <1>1, <1>2, <2>2, <2>3, <2>4, <2>5
  <2>7. \A a, c \in Spots :
           codes'[a] # None /\ codes'[c] # None /\ codes'[a].id = codes'[c].id => a = c
    BY <1>1, <1>2, <2>2, <2>3
  <2>8. \A x \in spent : x[1] < nextCode'
    BY <1>1, <2>3, <2>5
  <2>9. QED
    BY <1>1, <2>1, <2>6, <2>7, <2>8 DEF CodesFresh, Spots, CodeAdmitsOnce
<1>6. ASSUME NEW b \in Browsers, NEW e \in Addresses, Guesses(b, e) PROVE CodesFresh'
  <2>1. codes' = Missed(e, b) /\ nextCode' = nextCode /\ spent' = spent
    BY <1>6 DEF Guesses
  <2>2. \A a \in Spots : codes'[a] # None => codes[a] # None /\ codes'[a].id = codes[a].id
    BY <2>1, MissedOperation
  <2>3. QED
    BY <1>3, <2>1, <2>2
<1>7. ASSUME NEW b \in Browsers, NEW e \in Addresses, NEW w \in Passwords, Register(b, e, w)
      PROVE  CodesFresh'
  <2>1. nextCode' = nextCode
    BY <1>7 DEF Register
  <2>2. CASE codes' = codes /\ spent' = spent
    BY <1>3, <2>1, <2>2
  <2>3. CASE /\ Sweep[<<e, b>>] # None /\ codes' = Hit(e, b)
             /\ spent' = spent \cup {<<Sweep[<<e, b>>].id, NewId>>}
    <3> DEFINE s == <<e, b>>
               y == <<codes[s].id, NewId>>
    <3>1. s \in Spots /\ Sweep[s] = codes[s] /\ codes[s] # None
      BY <2>3, Swept DEF Spots
    <3>2. codes'[s] = None /\ \A a \in Spots : codes'[a] \in {None, codes[a]}
      BY <2>3, CodeOperations
    <3>3. spent' = spent \cup {y} /\ y[1] = codes[s].id
      BY <2>3, <3>1
    <3> HIDE DEF s, y
    <3>4. \A x \in spent : x[1] # y[1]
      BY <1>1, <3>1, <3>3
    <3>5. \A a \in Spots : codes'[a] # None =>
             /\ codes'[a].id < nextCode
             /\ \A x \in spent' : x[1] # codes'[a].id
      BY <1>1, <3>1, <3>2, <3>3
    <3>6. \A a, c \in Spots :
             codes'[a] # None /\ codes'[c] # None /\ codes'[a].id = codes'[c].id => a = c
      BY <1>1, <3>2
    <3>7. \A x \in spent' : x[1] < nextCode
      BY <1>1, <3>1, <3>3
    <3>8. \A x, z \in spent' : x[1] = z[1] => x = z
      BY <1>1, <3>3, <3>4
    <3>9. QED
      BY <2>1, <3>5, <3>6, <3>7, <3>8 DEF CodesFresh, Spots, CodeAdmitsOnce
  <2>4. QED
    BY <1>7, <2>2, <2>3 DEF Register
<1>8. CASE Restart
  <2>1. /\ nextCode' = nextCode /\ spent' = spent
        /\ \A a \in Spots : codes'[a] = None
    BY <1>8 DEF Restart, CodeShape, Spots
  <2>2. QED
    BY <1>3, <2>1
<1>9. QED
  BY <1>4, <1>5, <1>6, <1>7, <1>8, CodeSteps

-----------------------------------------------------------------------------
(* The budget of guesses of an address.                                     *)

LEMMA Shares ==
  ASSUME NEW m \in Nat, NEW n \in Nat, NEW g \in Nat, NEW k \in Nat, NEW l \in Nat,
         g + k <= m * n, l <= k + m
  PROVE  g + l <= m * (n + 1)
<1>1. m * n \in Nat /\ m * (n + 1) = m * n + m
  OBVIOUS
<1>2. \A p \in Nat : g + k <= p => g + l <= p + m
  OBVIOUS
<1>3. QED
  BY <1>1, <1>2

\* The guesses a new code allows.
LEMMA FreshGuesses ==
  ASSUME NEW m \in Nat \ {0}, NEW b
  PROVE  IsFiniteSet({b} \X (1 .. m)) /\ Cardinality({b} \X (1 .. m)) = m
<1>1. 1 \in Int /\ m \in Int
  OBVIOUS
<1>2. IsFiniteSet(1 .. m) /\ Cardinality(1 .. m) = IF 1 > m THEN 0 ELSE m - 1 + 1
  BY <1>1, FS_Interval
<1>3. (IF 1 > m THEN 0 ELSE m - 1 + 1) = m
  OBVIOUS
<1>4. IsFiniteSet({b}) /\ Cardinality({b}) = 1
  BY FS_Singleton
<1>5. Cardinality({b} \X (1 .. m)) = 1 * Cardinality(1 .. m) /\ IsFiniteSet({b} \X (1 .. m))
  <2> DEFINE I == 1 .. m
  <2>1. IsFiniteSet(I)
    BY <1>2
  <2> HIDE DEF I
  <2>2. /\ IsFiniteSet({b} \X I)
        /\ Cardinality({b} \X I) = Cardinality({b}) * Cardinality(I)
    BY <1>4, <2>1, FS_Product
  <2>3. QED
    BY <1>4, <2>2 DEF I
<1>6. 1 * m = m
  OBVIOUS
<1>7. QED
  BY <1>2, <1>3, <1>5, <1>6

\* What is left of codes of which some are gone or as they were.
LEMMA LeftKept ==
  ASSUME NEW e \in Addresses, CodeShape,
         \A b \in Browsers : codes'[<<e, b>>] \in {None, codes[<<e, b>>]}
  PROVE  Left(e)' \subseteq Left(e)
BY DEF Left

LEMMA SmallerLeft ==
  ASSUME NEW e \in Addresses, IsFiniteSet(Left(e)), Left(e)' \subseteq Left(e),
         NEW m \in Nat, NEW g \in Nat, g + Cardinality(Left(e)) <= m
  PROVE  IsFiniteSet(Left(e)') /\ g + Cardinality(Left(e)') <= m
<1>1. /\ IsFiniteSet(Left(e)') /\ Cardinality(Left(e)') <= Cardinality(Left(e))
      /\ Cardinality(Left(e)') \in Nat /\ Cardinality(Left(e)) \in Nat
  BY FS_Subset, FS_CardinalityType
<1>2. \A i, j \in Nat : i <= j /\ g + j <= m => g + i <= m
  OBVIOUS
<1>3. QED
  BY <1>1, <1>2

\* An address whose codes are gone or as they were keeps to the budget.
LEMMA BudgetKept ==
  ASSUME CodeShape, GuessBudget, NEW e \in Addresses,
         \A b \in Browsers : codes'[<<e, b>>] \in {None, codes[<<e, b>>]},
         sent'[e].n = sent[e].n, guesses'[e] = guesses[e]
  PROVE  /\ IsFiniteSet(Left(e)') /\ sent'[e].n <= Daily
         /\ guesses'[e] + Cardinality(Left(e)') <= MaxAttempts * sent'[e].n
         /\ \A b \in Browsers :
              codes'[<<e, b>>] # None => codes'[<<e, b>>].attempts < MaxAttempts
<1>1. /\ IsFiniteSet(Left(e)) /\ sent[e].n <= Daily
      /\ guesses[e] + Cardinality(Left(e)) <= MaxAttempts * sent[e].n
      /\ \A b \in Browsers : codes[<<e, b>>] # None => codes[<<e, b>>].attempts < MaxAttempts
  BY DEF GuessBudget
<1>2. Left(e)' \subseteq Left(e)
  BY LeftKept
<1>3. guesses[e] \in Nat /\ MaxAttempts * sent[e].n \in Nat
  <2>1. guesses[e] \in Nat /\ sent[e].n \in Nat /\ MaxAttempts \in Nat
    BY AccountsAssumption DEF CodeShape
  <2>2. \A i, j \in Nat : i * j \in Nat
    OBVIOUS
  <2>3. QED
    BY <2>1, <2>2
<1>4. IsFiniteSet(Left(e)') /\ guesses[e] + Cardinality(Left(e)') <= MaxAttempts * sent[e].n
  BY <1>1, <1>2, <1>3, SmallerLeft
<1>5. QED
  BY <1>1, <1>4

LEMMA GuessBudgetStep ==
  ASSUME TableShape, MemoryShape, AccountsApart, CodeShape, GuessBudget, [Next]_vars
  PROVE  GuessBudget'
<1> DEFINE Within(e) == /\ IsFiniteSet(Left(e)) /\ sent[e].n <= Daily
                        /\ guesses[e] + Cardinality(Left(e)) <= MaxAttempts * sent[e].n
                        /\ \A b \in Browsers : codes[<<e, b>>] # None =>
                                                 codes[<<e, b>>].attempts < MaxAttempts
<1>1. \A e \in Addresses : Within(e)
  BY DEF GuessBudget
<1>2. /\ MaxAttempts \in Nat \ {0} /\ Daily \in Nat
      /\ \A e \in Addresses : guesses[e] \in Nat /\ sent[e].n \in Nat
      /\ \A i, j \in Nat : i * j \in Nat
  BY AccountsAssumption DEF CodeShape
<1>3. \A e \in Addresses, b \in Browsers : <<e, b>> \in Spots
  BY DEF Spots
<1>4. ASSUME NEW e \in Addresses,
             \A b \in Browsers : codes'[<<e, b>>] \in {None, codes[<<e, b>>]},
             sent'[e].n = sent[e].n, guesses'[e] = guesses[e]
      PROVE  Within(e)'
  BY <1>4, BudgetKept
<1>5. ASSUME \A e \in Addresses : Within(e)' PROVE GuessBudget'
  BY <1>5 DEF GuessBudget
<1>6. CASE UNCHANGED <<codes, sent, guesses, nextCode, spent>>
  <2>1. \A e \in Addresses : Within(e)'
    BY <1>4, <1>6
  <2>2. QED
    BY <1>5, <2>1
<1>7. ASSUME NEW b \in Browsers, NEW e \in Addresses, SendCode(b, e) PROVE GuessBudget'
  <2>1. /\ codes' = IssueCode(e, b) /\ guesses' = guesses
        /\ sent' = [sent EXCEPT ![e] = [n |-> @.n + 1, last |-> now]]
        /\ sent[e].n < Daily
    BY <1>7 DEF SendCode, MaySend
  <2>2. \A a \in Spots \ {<<e, b>>} : codes'[a] \in {None, codes[a]}
    BY <2>1, CodeOperations
  <2>3. ASSUME NEW f \in Addresses, f # e PROVE Within(f)'
    <3>1. \A c \in Browsers : codes'[<<f, c>>] \in {None, codes[<<f, c>>]}
      BY <1>3, <2>2, <2>3
    <3>2. sent'[f].n = sent[f].n
      BY <2>1, <2>3 DEF CodeShape
    <3>3. QED
      BY <1>4, <2>1, <3>1, <3>2
  <2>4. Within(e)'
    <3> DEFINE New == {b} \X (1 .. MaxAttempts)
    <3>1. codes'[<<e, b>>].attempts = 0 /\ \A c \in Browsers \ {b} :
             codes'[<<e, c>>] \in {None, codes[<<e, c>>]}
      BY <1>3, <2>1, <2>2, CodeOperations
    <3>2. Left(e)' \subseteq Left(e) \cup New
      BY <3>1 DEF Left
    <3>3. IsFiniteSet(New) /\ Cardinality(New) = MaxAttempts
      BY <1>2, FreshGuesses
    <3> HIDE DEF New
    <3>4. /\ IsFiniteSet(Left(e) \cup New)
          /\ Cardinality(Left(e) \cup New) <= Cardinality(Left(e)) + MaxAttempts
      <4>1. /\ IsFiniteSet(Left(e)) /\ IsFiniteSet(Left(e) \cap New)
            /\ Cardinality(Left(e)) \in Nat /\ Cardinality(Left(e) \cap New) \in Nat
        BY <1>1, <3>3, FS_Intersection, FS_CardinalityType
      <4>2. /\ IsFiniteSet(Left(e) \cup New)
            /\ Cardinality(Left(e) \cup New) =
                 Cardinality(Left(e)) + MaxAttempts - Cardinality(Left(e) \cap New)
        BY <3>3, <4>1, FS_Union
      <4>3. \A i, j, k \in Nat : i + j - k <= i + j
        OBVIOUS
      <4>4. QED
        BY <1>2, <4>1, <4>2, <4>3
    <3>5. /\ IsFiniteSet(Left(e)') /\ Cardinality(Left(e)') \in Nat
          /\ Cardinality(Left(e)') <= Cardinality(Left(e)) + MaxAttempts
      <4>1. /\ IsFiniteSet(Left(e)') /\ Cardinality(Left(e)') \in Nat
            /\ Cardinality(Left(e)') <= Cardinality(Left(e) \cup New)
            /\ Cardinality(Left(e) \cup New) \in Nat
            /\ Cardinality(Left(e)) \in Nat
        BY <1>1, <3>2, <3>4, FS_Subset, FS_CardinalityType
      <4>2. \A i, j, k \in Nat : i <= j /\ j <= k + MaxAttempts => i <= k + MaxAttempts
        BY <1>2
      <4>3. QED
        BY <3>4, <4>1, <4>2
    <3>6. sent'[e].n = sent[e].n + 1 /\ guesses'[e] = guesses[e]
      BY <2>1 DEF CodeShape
    <3>7. guesses[e] + Cardinality(Left(e)') <= MaxAttempts * (sent[e].n + 1)
      <4>1. /\ Cardinality(Left(e)) \in Nat
            /\ guesses[e] + Cardinality(Left(e)) <= MaxAttempts * sent[e].n
        BY <1>1, FS_CardinalityType
      <4>2. QED
        BY <1>2, <3>5, <4>1, Shares
    <3>8. sent'[e].n <= Daily
      BY <1>2, <2>1, <3>6
    <3>9. \A c \in Browsers : codes'[<<e, c>>] # None => codes'[<<e, c>>].attempts < MaxAttempts
      BY <1>1, <1>2, <3>1
    <3>10. QED
      BY <3>5, <3>6, <3>7, <3>8, <3>9
  <2>5. QED
    BY <1>5, <2>3, <2>4
<1>8. ASSUME NEW b \in Browsers, NEW e \in Addresses, Guesses(b, e) PROVE GuessBudget'
  <2>1. /\ codes' = Missed(e, b) /\ sent' = sent
        /\ guesses' = [guesses EXCEPT ![e] = @ + (IF Sweep[<<e, b>>] = None THEN 0 ELSE 1)]
    BY <1>8 DEF Guesses
  <2>2. \A a \in Spots \ {<<e, b>>} : codes'[a] \in {None, codes[a]}
    BY <2>1, MissedOperation
  <2>3. ASSUME NEW f \in Addresses, f # e PROVE Within(f)'
    <3>1. \A c \in Browsers : codes'[<<f, c>>] \in {None, codes[<<f, c>>]}
      BY <1>3, <2>2, <2>3
    <3>2. guesses'[f] = guesses[f]
      BY <2>1, <2>3 DEF CodeShape
    <3>3. QED
      BY <1>4, <2>1, <3>1, <3>2
  <2>4. \A c \in Browsers \ {b} : codes'[<<e, c>>] \in {None, codes[<<e, c>>]}
    BY <1>3, <2>2
  <2>5. Within(e)'
    <3>1. CASE Sweep[<<e, b>>] = None
      <4>1. codes'[<<e, b>>] = None /\ guesses'[e] = guesses[e]
        BY <1>2, <2>1, <3>1, MissedOperation DEF CodeShape
      <4>2. \A c \in Browsers : codes'[<<e, c>>] \in {None, codes[<<e, c>>]}
        BY <2>4, <4>1
      <4>3. QED
        BY <1>4, <2>1, <4>1, <4>2
    <3>2. CASE Sweep[<<e, b>>] # None
      <4> DEFINE k == codes[<<e, b>>].attempts
                 x == <<b, k + 1>>
      <4>1. /\ codes[<<e, b>>] # None /\ k \in Nat /\ k < MaxAttempts
            /\ guesses'[e] = guesses[e] + 1
        <5>1. Sweep[<<e, b>>] = codes[<<e, b>>]
          BY <1>3, <3>2, Swept
        <5>2. codes[<<e, b>>] \in CodeRows
          BY <3>2, <5>1 DEF CodeShape
        <5>3. QED
          BY <1>1, <2>1, <3>2, <5>1, <5>2 DEF CodeRows, CodeShape
      <4>2. codes'[<<e, b>>] # None => /\ codes'[<<e, b>>].attempts = k + 1
                                       /\ k + 1 < MaxAttempts
        BY <2>1, MissedOperation
      <4> HIDE DEF k
      <4>3. x \in Left(e)
        BY <1>2, <4>1 DEF Left, k
      <4>4. x \notin Left(e)'
        BY <4>1, <4>2 DEF Left
      <4>5. Left(e)' \subseteq Left(e)
        <5>1. ASSUME NEW n \in 1 .. MaxAttempts, codes'[<<e, b>>] # None,
                     codes'[<<e, b>>].attempts < n
              PROVE  k < n
          BY <1>2, <4>1, <4>2, <5>1
        <5>2. QED
          BY <2>4, <4>1, <5>1 DEF Left, k
      <4>6. /\ IsFiniteSet(Left(e)') /\ Cardinality(Left(e)') + 1 <= Cardinality(Left(e))
            /\ Cardinality(Left(e)') \in Nat /\ Cardinality(Left(e)) \in Nat
        <5>1. IsFiniteSet(Left(e)) /\ Cardinality(Left(e)) \in Nat
          BY <1>1, FS_CardinalityType
        <5>2. IsFiniteSet(Left(e) \ {x}) /\ Cardinality(Left(e) \ {x}) = Cardinality(Left(e)) - 1
          BY <4>3, <5>1, FS_RemoveElement
        <5>3. Left(e)' \subseteq Left(e) \ {x}
          BY <4>4, <4>5
        <5>4. /\ IsFiniteSet(Left(e)') /\ Cardinality(Left(e)') \in Nat
              /\ Cardinality(Left(e)') <= Cardinality(Left(e) \ {x})
          BY <5>2, <5>3, FS_Subset, FS_CardinalityType
        <5>5. QED
          BY <5>1, <5>2, <5>4
      <4>7. guesses[e] + Cardinality(Left(e)) <= MaxAttempts * sent[e].n
            /\ MaxAttempts * sent[e].n \in Nat
        BY <1>1, <1>2
      <4>8. \A g, i, j, m \in Nat : i + 1 <= j /\ g + j <= m => (g + 1) + i <= m
        OBVIOUS
      <4>9. guesses'[e] + Cardinality(Left(e)') <= MaxAttempts * sent[e].n
        BY <1>2, <4>1, <4>6, <4>7, <4>8
      <4>10. \A c \in Browsers :
                codes'[<<e, c>>] # None => codes'[<<e, c>>].attempts < MaxAttempts
        BY <1>1, <2>4, <4>2
      <4>11. QED
        BY <1>1, <2>1, <4>6, <4>9, <4>10
    <3>3. QED
      BY <3>1, <3>2
  <2>6. QED
    BY <1>5, <2>3, <2>5
<1>9. ASSUME NEW b \in Browsers, NEW e \in Addresses, NEW w \in Passwords, Register(b, e, w)
      PROVE  GuessBudget'
  <2>1. sent' = sent /\ guesses' = guesses /\ (codes' = codes \/ codes' = Hit(e, b))
    BY <1>9 DEF Register
  <2>2. \A a \in Spots : codes'[a] \in {None, codes[a]}
    BY <2>1, CodeOperations
  <2>3. \A f \in Addresses : Within(f)'
    BY <1>3, <1>4, <2>1, <2>2
  <2>4. QED
    BY <1>5, <2>3
<1>10. CASE Restart
  <2>1. ASSUME NEW e \in Addresses PROVE Within(e)'
    <3>1. /\ \A b \in Browsers : codes'[<<e, b>>] = None
          /\ sent'[e].n = 0 /\ guesses'[e] = 0
      BY <1>10 DEF Restart, CodeShape
    <3>2. Left(e)' = {}
      BY <3>1 DEF Left
    <3>3. IsFiniteSet(Left(e)') /\ Cardinality(Left(e)') = 0
      BY <3>2, FS_EmptySet
    <3>4. QED
      BY <1>2, <3>1, <3>3
  <2>2. QED
    BY <1>5, <2>1
<1>11. QED
  BY <1>6, <1>7, <1>8, <1>9, <1>10, CodeSteps

-----------------------------------------------------------------------------
(* The invariant, and what follows from it.                                 *)

LEMMA InitAccounts ==
  ASSUME Init
  PROVE  /\ account \in [Ids -> UserRows \cup {None}] /\ nextId \in Nat \ {0}
         /\ browser \in [Browsers -> [cookie : Nat, stash : Invites \cup {None}]]
         /\ issuedTo \in [Browsers -> Addresses \cup {None}]
         /\ AccountsApart /\ AnnouncementOnce
         /\ \A id \in Ids : Taken(id) => account[id].announcement = 0 /\ Fits(account[id])
         /\ \A b \in Browsers : /\ Cookie(b) < nextId
                                /\ Taken(Cookie(b)) => account[Cookie(b)].email = issuedTo[b]
<1>1. None \notin UserRows /\ 1 \in Ids /\ 0 \notin Ids /\ Ids \subseteq Nat
  BY AccountsAssumption DEF Ids
<1>2. CASE /\ account = [id \in Ids |-> None] /\ nextId = 1
           /\ browser = [c \in Browsers |-> [cookie |-> 0, stash |-> None]]
           /\ issuedTo = [c \in Browsers |-> None]
  BY <1>1, <1>2 DEF AccountsApart, AnnouncementOnce, Taken, Cookie
<1>3. ASSUME NEW e \in Addresses, NEW w \in Passwords,
             account = [id \in Ids |->
               IF id = 1 THEN [email |-> e, role |-> "admin", hash |-> w, legacy |-> TRUE,
                               verifier |-> None, announcement |-> 0] ELSE None],
             nextId = 2,
             browser = [c \in Browsers |->
               [cookie |-> IF c = Owner[e] THEN 1 ELSE 0, stash |-> None]],
             issuedTo = [c \in Browsers |-> IF c = Owner[e] THEN e ELSE None]
      PROVE  /\ account \in [Ids -> UserRows \cup {None}] /\ nextId \in Nat \ {0}
             /\ browser \in [Browsers -> [cookie : Nat, stash : Invites \cup {None}]]
             /\ issuedTo \in [Browsers -> Addresses \cup {None}]
             /\ AccountsApart /\ AnnouncementOnce
             /\ \A id \in Ids : Taken(id) => account[id].announcement = 0 /\ Fits(account[id])
             /\ \A b \in Browsers : /\ Cookie(b) < nextId
                                    /\ Taken(Cookie(b)) => account[Cookie(b)].email = issuedTo[b]
  <2> DEFINE r == [email |-> e, role |-> "admin", hash |-> w, legacy |-> TRUE,
                   verifier |-> None, announcement |-> 0]
  <2>1. r \in UserRows /\ r.email = e /\ r.announcement = 0 /\ Fits(r)
    BY DEF UserRows, Fits
  <2>2. account = [id \in Ids |-> IF id = 1 THEN r ELSE None]
    BY <1>3
  <2> HIDE DEF r
  <2>3. \A id : Taken(id) => id = 1 /\ account[id] = r
    BY <1>1, <2>1, <2>2 DEF Taken
  <2>4. \A b \in Browsers : /\ Cookie(b) \in {0, 1}
                            /\ Cookie(b) = 1 => issuedTo[b] = e
    BY <1>3 DEF Cookie
  <2>5. account \in [Ids -> UserRows \cup {None}]
    BY <2>1, <2>2
  <2>6. AccountsApart /\ AnnouncementOnce
    BY <1>3, <2>3 DEF AccountsApart, AnnouncementOnce
  <2>7. /\ browser \in [Browsers -> [cookie : Nat, stash : Invites \cup {None}]]
        /\ issuedTo \in [Browsers -> Addresses \cup {None}]
    BY <1>3
  <2>8. \A b \in Browsers : /\ Cookie(b) < nextId
                            /\ Taken(Cookie(b)) => account[Cookie(b)].email = issuedTo[b]
    <3>1. \A b \in Browsers : Cookie(b) < nextId
      BY <1>3, <2>4
    <3>2. \A b \in Browsers : Taken(Cookie(b)) => Cookie(b) = 1 /\ account[Cookie(b)] = r
      BY <2>3
    <3>3. QED
      BY <2>1, <2>4, <3>1, <3>2
  <2>9. \A id \in Ids : Taken(id) => account[id].announcement = 0 /\ Fits(account[id])
    BY <2>1, <2>3
  <2>10. nextId \in Nat \ {0}
    BY <1>3
  <2>11. QED
    BY <2>5, <2>6, <2>7, <2>8, <2>9, <2>10
<1>4. QED
  BY <1>2, <1>3 DEF Init

LEMMA InitInv == Init => IInv
<1> SUFFICES ASSUME Init PROVE IInv
  OBVIOUS
<1>1. /\ (group = [g \in Groups |-> None] \/ \E g \in Groups, n \in Names :
            group = [f \in Groups |-> IF f = g THEN n ELSE None])
      /\ member = {} /\ invite = [i \in Invites |-> None] /\ pool = <<1, 2>>
      /\ codes = [a \in Addresses \X Browsers |-> None]
      /\ sent = [e \in Addresses |-> [n |-> 0, last |-> None]]
      /\ waiting = {} /\ now = 0 /\ calls = 0 /\ nextCode = 1
      /\ guesses = [e \in Addresses |-> 0] /\ spent = {}
  BY DEF Init
<1>2. TableShape
  BY <1>1, InitAccounts, AccountsAssumption DEF TableShape
<1>3. pool \in Seq(Nat \ {0}) /\ Len(pool) = 2 /\ pool[1] = 1 /\ pool[2] = 2
  BY <1>1
<1>4. MemoryShape
  BY <1>1, <1>3, InitAccounts DEF MemoryShape
<1>5. CodeShape
  BY <1>1 DEF CodeShape
<1>6. AccountsApart
  BY InitAccounts
<1>7. LinksSound
  <2>1. \A g, f \in Groups : IsGroup(g) /\ group[f] = group[g] => g = f
    BY <1>1 DEF IsGroup
  <2>2. QED
    BY <1>1, <2>1 DEF LinksSound, IsLink
<1>8. CodesFresh
  BY <1>1 DEF CodesFresh, CodeAdmitsOnce
<1>9. GuessBudget
  <2>1. MaxAttempts \in Nat /\ Daily \in Nat
    BY AccountsAssumption
  <2>2. ASSUME NEW e \in Addresses
        PROVE  /\ Left(e) = {} /\ sent[e].n = 0 /\ guesses[e] = 0
               /\ \A b \in Browsers : codes[<<e, b>>] = None
    BY <1>1 DEF Left
  <2>3. IsFiniteSet({}) /\ Cardinality({}) = 0
    BY FS_EmptySet
  <2>4. QED
    <3>1. 0 + 0 <= MaxAttempts * 0 /\ 0 <= Daily
      BY <2>1
    <3>2. QED
      BY <2>2, <2>3, <3>1 DEF GuessBudget
<1>10. Announced
  BY <1>3, InitAccounts DEF Announced
<1>11. CookiesSound /\ VerifiersFit
  BY <1>1, InitAccounts DEF CookiesSound, VerifiersFit
<1>12. QED
  BY <1>2, <1>4, <1>5, <1>6, <1>7, <1>8, <1>9, <1>10, <1>11 DEF IInv

LEMMA NextInv == IInv /\ [Next]_vars => IInv'
<1> SUFFICES ASSUME IInv, [Next]_vars PROVE IInv'
  OBVIOUS
<1> USE DEF IInv
<1>1. TableShape'
  BY AccountShapeStep, LinksStep, ClockStep DEF TableShape
<1>2. QED
  BY <1>1, MemoryShapeStep, CodeShapeStep, AccountsApartStep, LinksStep, CodesFreshStep,
     GuessBudgetStep, AnnouncedStep, CookiesSoundStep, VerifiersFitStep

THEOREM Invariance == Spec => []IInv
BY InitInv, NextInv, PTL DEF Spec

\* The guesses an address bears are bounded by the codes it was sent.
LEMMA GuessesFollow == ASSUME IInv PROVE GuessesBounded
<1> SUFFICES ASSUME NEW e \in Addresses PROVE guesses[e] <= Daily * MaxAttempts
  BY DEF GuessesBounded
<1>1. /\ MaxAttempts \in Nat /\ Daily \in Nat /\ sent[e].n \in Nat /\ guesses[e] \in Nat
      /\ Cardinality(Left(e)) \in Nat /\ sent[e].n <= Daily
      /\ guesses[e] + Cardinality(Left(e)) <= MaxAttempts * sent[e].n
  BY AccountsAssumption, FS_CardinalityType DEF IInv, CodeShape, GuessBudget
<1>2. \A m, n, d \in Nat : n <= d => m * n <= d * m
  <2>1. SUFFICES ASSUME NEW m \in Nat, NEW n \in Nat, NEW d \in Nat, n <= d
                 PROVE  m * n <= d * m
    OBVIOUS
  <2>2. PICK k \in Nat : d = n + k
    BY <2>1
  <2>3. d * m = m * n + m * k /\ m * k \in Nat /\ m * n \in Nat
    BY <2>2
  <2>4. QED
    BY <2>3
<1>3. MaxAttempts * sent[e].n <= Daily * MaxAttempts
  BY <1>1, <1>2
<1>4. \A g, l, p, q \in Nat : g + l <= p /\ p <= q => g <= q
  OBVIOUS
<1>5. MaxAttempts * sent[e].n \in Nat /\ Daily * MaxAttempts \in Nat
  <2>1. \A i, j \in Nat : i * j \in Nat
    OBVIOUS
  <2>2. QED
    BY <1>1, <2>1
<1>6. QED
  BY <1>1, <1>3, <1>4, <1>5

LEMMA TypesFollow == ASSUME IInv PROVE TypeOK
<1>1. \A id \in Ids : Taken(id) =>
        /\ id < nextId
        /\ account[id].email \in Addresses /\ account[id].role \in {"admin", "user"}
        /\ account[id].hash \in Passwords /\ account[id].legacy \in BOOLEAN
        /\ account[id].verifier \in Passwords \cup {None}
  BY DEF IInv, TableShape, AccountsApart, UserRows, Taken
<1>2. \A i \in Invites : IsLink(i) => IsGroup(invite[i].group) /\ invite[i].used \in Nat
  BY DEF IInv, TableShape, LinksSound, LinkRows, IsLink
<1>3. QED
  BY <1>1, <1>2 DEF TypeOK, IInv, TableShape, AccountsApart, LinksSound

LEMMA CookiesFollow == ASSUME IInv PROVE SessionsStayPersonal
<1> SUFFICES ASSUME NEW b \in Browsers, Identity(b) # 0
             PROVE  account[Identity(b)].email = issuedTo[b]
  BY DEF SessionsStayPersonal
<1>1. Taken(Cookie(b)) /\ Identity(b) = Cookie(b)
  BY DEF Identity
<1>2. QED
  BY <1>1 DEF IInv, CookiesSound

\* Whatever registrations, sign-ins, claims and the administrators' calls overtake each
\* other, and whenever the server restarts: a link admits no more than it was made
\* for, an address bears no more wrong guesses than its codes allow, one code makes
\* one account, one announcement goes to one account, and a cookie never comes to
\* stand for another person (email-code.ts:51, register.post.ts:78, invites.ts:112,
\* session.ts:64).
THEOREM AccountsCorrect == Spec => []AccountsInv
<1>1. IInv => AccountsInv
  <2> SUFFICES ASSUME IInv PROVE AccountsInv
    OBVIOUS
  <2>1. InviteBounded
    BY DEF IInv, LinksSound, InviteBounded
  <2>2. CodeAdmitsOnce /\ AnnouncementOnce
    BY DEF IInv, CodesFresh, Announced
  <2>3. QED
    BY <2>1, <2>2, TypesFollow, GuessesFollow, CookiesFollow DEF AccountsInv
<1>2. QED
  BY <1>1, Invariance, PTL

\* The verifier OBS signs in with is of the password of the account, also when a
\* sign-in with an old hash is overtaken by a change of the password.
THEOREM VerifierCorrect == Spec => []VerifierFollowsPassword
<1>1. IInv => VerifierFollowsPassword
  BY DEF IInv, VerifiersFit, Fits, VerifierFollowsPassword
<1>2. QED
  BY <1>1, Invariance, PTL
=============================================================================
