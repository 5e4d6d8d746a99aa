------------------------------ MODULE Console ------------------------------
(***************************************************************************)
(* The forms of the dashboard over the rows they edit: the site             *)
(* configuration, the mail configuration, the settings of an event, the     *)
(* groups, the users and a user's own note.  Administrators work in tabs.   *)
(* A page loads its rows, keeps an editable copy beside them, sends the     *)
(* copy as a whole, and takes the answer as its new rows; the guard of      *)
(* useUnsavedLeaveGuard stands between an edited copy and the next page.    *)
(*                                                                         *)
(* Every row has two fields, told apart by how the code treats them:        *)
(*   config    a: probe concurrency            b: the announcement pool     *)
(*   mail      a: the fields that are sent     b: a secret (never read back)*)
(*   event     a: the copy `settings`          b: the limits and the window *)
(*   group     a: name                         b: description               *)
(*   user      a: role                         b: groups                    *)
(*   note      a: the text                     b: (unused)                  *)
(*                                                                         *)
(* Bounds: MaxEdits keystrokes, MaxSaves saves, MaxMoves page changes and   *)
(* MaxEvents other events (a registration, a read of a cache, a restart, a  *)
(* deletion, a refresh) in a behaviour.  A deletion and the refresh after it *)
(* are one step, and the two seconds in which the bar says Saved are left   *)
(* out.                                                                     *)
(***************************************************************************)
EXTENDS Naturals

CONSTANTS Tabs, Users, FormGroups, Pages, Values, Null, Gone,
          MaxEdits, MaxSaves, MaxMoves, MaxEvents

Blank == 0
Fields == {"a", "b"}
Row == [Fields -> Values]

(* The pool of announcements is counted down; ids are not names of documents; *)
(* an event that is deleted leaves its page for the list of events; and a     *)
(* copy that is there is not what stands for none.                            *)
ASSUME ConsoleAssumption ==
  /\ Values \subseteq Nat /\ {0, 1} \subseteq Values
  /\ \A v \in Values : v > 0 => v - 1 \in Values
  /\ (FormGroups \cup Users) \cap {"config", "mail", "event", "note"} = {}
  /\ Pages \subseteq {"config", "mail", "settings", "groups", "users", "home"}
  /\ "settings" \in Pages => "home" \in Pages
  /\ Null \notin Row

Cached == {"config", "mail"}
Docs == {"config", "mail", "event", "note"} \cup FormGroups \cup Users

(* What a page edits. *)
DocsOf(p) == CASE p = "config" -> {"config"} [] p = "mail" -> {"mail"}
               [] p = "settings" -> {"event"} [] p = "groups" -> FormGroups
               [] p = "users" -> Users [] p = "home" -> {"note"}

(* config, mail and settings copy their row as soon as it is loaded.         *)
Eager(p) == p \in {"config", "mail", "settings"}
(* The inputs of groups and users are disabled while a save is in flight.    *)
Locked(p) == p \in {"groups", "users"}
(* The note of the home page is edited without the leave guard.              *)
Guarded(p) == p # "home"

VARIABLES table,    \* the stored rows
          cache,  \* the caches of config-store and mail-config, Null when dropped
          width,  \* the permits of the probe semaphore
          late,   \* requests whose page no longer waits for them
          page,   \* the page a tab shows
          base,   \* the rows as the page last loaded them
          draft,  \* the editable copies, Null when there is none
          orig,   \* what a copy was made of
          sent,   \* the requests of a save in flight, Null when not saving
          ask,    \* the leave dialog is open (confirmLeave)
          pending, \* where a held navigation was going (pendingTo)
          confirm, \* the row the confirm dialog would delete, Null when closed
          leaving, \* the save in flight is the dialog's
          spent   \* how much of each bound is used

server == <<table, cache, width>>
tab == <<page, base, draft, orig, sent, ask, pending, confirm, leaving>>
consoleVars ==
  <<table, cache, width, late, page, base, draft, orig, sent, ask, pending, confirm, leaving, spent>>

Budget == [edit |-> MaxEdits, save |-> MaxSaves, move |-> MaxMoves, event |-> MaxEvents]
Spend(what) == spent[what] < Budget[what] /\ spent' = [spent EXCEPT ![what] = @ + 1]

-----------------------------------------------------------------------------
(* getConfig, getMailConfig: the cache, or the row behind it. *)
Current(d) == IF d \in Cached /\ cache[d] # Null THEN cache[d] ELSE table[d]

(* mailConfigToClient: a secret is never sent to a page. *)
Redacted(r) == [r EXCEPT !.b = Blank]
View(d) == IF d = "mail" THEN Redacted(Current(d)) ELSE Current(d)
Loaded(p) == [d \in DocsOf(p) |-> View(d)]

(* The editable copy of a row: the whole configuration; the mail fields with *)
(* the secret boxes empty; the settings beside their limits and window.      *)
ConfigCopy(r) == r
MailCopy(r) == [r EXCEPT !.b = Blank]
LimitsCopy(r) == r.b
SettingsCopy(r) == [a |-> r.a, b |-> LimitsCopy(r)]

NoDrafts(p) == [d \in DocsOf(p) |-> Null]
Copies(p, rows) ==
  CASE p = "config"   -> [d \in {"config"} |-> ConfigCopy(rows[d])]
    [] p = "mail"     -> [d \in {"mail"} |-> MailCopy(rows[d])]
    [] p = "settings" -> [d \in {"event"} |-> IF rows[d] = Gone THEN Null ELSE SettingsCopy(rows[d])]
    [] OTHER          -> NoDrafts(p)

-----------------------------------------------------------------------------
SentRows == [body : Row, at : {"wire", "stored", "refused"}, reply : Row]

ConsoleTypeOK ==
  /\ table \in [Docs -> Row \cup {Gone}]
  /\ cache \in [Cached -> Row \cup {Null}]
  /\ width \in Values
  /\ late \subseteq (Docs \X Row)
  /\ page \in [Tabs -> Pages]
  /\ \A t \in Tabs :
       /\ base[t] \in [DocsOf(page[t]) -> Row \cup {Gone}]
       /\ draft[t] \in [DocsOf(page[t]) -> Row \cup {Null}]
       /\ orig[t] \in [DocsOf(page[t]) -> Row \cup {Gone}]
       /\ sent[t] # Null =>
            /\ DOMAIN sent[t] \subseteq DocsOf(page[t])
            /\ \A d \in DOMAIN sent[t] : sent[t][d] \in SentRows
  /\ ask \in [Tabs -> BOOLEAN]
  /\ pending \in [Tabs -> Pages \cup {Null}]
  /\ confirm \in [Tabs -> Docs \cup {Null}]
  /\ leaving \in [Tabs -> BOOLEAN]

ConsoleInit ==
  /\ table = [d \in Docs |-> [f \in Fields |-> IF d = "config" THEN 1 ELSE 0]]
  /\ cache = [d \in Cached |-> Null]
  /\ width = 1
  /\ late = {}
  /\ page \in [Tabs -> Pages]
  /\ base = [t \in Tabs |-> Loaded(page[t])]
  /\ draft = [t \in Tabs |-> Copies(page[t], base[t])]
  /\ orig = base
  /\ sent = [t \in Tabs |-> Null]
  /\ ask = [t \in Tabs |-> FALSE]
  /\ pending = [t \in Tabs |-> Null]
  /\ confirm = [t \in Tabs |-> Null]
  /\ leaving = [t \in Tabs |-> FALSE]
  /\ spent = [b \in DOMAIN Budget |-> 0]

-----------------------------------------------------------------------------
(* When a page calls a copy edited: a secret box counts as soon as it is not *)
(* empty, a group is compared with what its edit began from, and a user who  *)
(* is no longer listed does not count.                                       *)
ConfigDirty(typed, was) == typed # was
MailDirty(typed, was) == typed.a # was.a \/ typed.b # Blank
SettingsDirty(typed, was) == was # Gone /\ typed # was
GroupDirty(typed, from) == typed # from
UserDirty(typed, was) == was # Gone /\ typed # was

EditedIn(p, typed, was, from) ==
  CASE p = "config" -> ConfigDirty(typed, was) [] p = "mail" -> MailDirty(typed, was)
    [] p = "settings" -> SettingsDirty(typed, was) [] p = "groups" -> GroupDirty(typed, from)
    [] p = "users" -> UserDirty(typed, was) [] p = "home" -> typed # was

DirtyIn(t, copies, rows, from) ==
  {d \in DocsOf(page[t]) : copies[d] # Null /\ EditedIn(page[t], copies[d], rows[d], from[d])}
DirtyDocs(t) == DirtyIn(t, draft[t], base[t], orig[t])
Dirty(t) == DirtyDocs(t) # {}
Saving(t) == sent[t] # Null
Modal(t) == ask[t] \/ confirm[t] # Null

(* Navigation that nothing holds back: the next page loads its rows. *)
\* Mutant: the page that was left still waits for its save.
EnterWaiting(t, p) ==
  /\ page' = [page EXCEPT ![t] = p]
  /\ base' = [base EXCEPT ![t] = Loaded(p)]
  /\ draft' = [draft EXCEPT ![t] = Copies(p, Loaded(p))]
  /\ orig' = [orig EXCEPT ![t] = Loaded(p)]
  /\ ask' = [ask EXCEPT ![t] = FALSE]
  /\ pending' = [pending EXCEPT ![t] = Null]
  /\ leaving' = [leaving EXCEPT ![t] = FALSE]
  /\ UNCHANGED sent
Enter(t, p) ==
  /\ page' = [page EXCEPT ![t] = p]
  /\ base' = [base EXCEPT ![t] = Loaded(p)]
  /\ draft' = [draft EXCEPT ![t] = Copies(p, Loaded(p))]
  /\ orig' = [orig EXCEPT ![t] = Loaded(p)]
  /\ sent' = [sent EXCEPT ![t] = Null]
  /\ ask' = [ask EXCEPT ![t] = FALSE]
  /\ pending' = [pending EXCEPT ![t] = Null]
  /\ leaving' = [leaving EXCEPT ![t] = FALSE]

(* The requests of a page that no longer waits for them. *)
Orphans(t) ==
  IF Saving(t) THEN {<<d, sent[t][d].body>> : d \in {e \in DOMAIN sent[t] : sent[t][e].at = "wire"}} ELSE {}

(* onBeforeRouteLeave: an edited page asks first, unless it is saving. *)
HeldBack(t) == Guarded(page[t]) /\ Dirty(t) /\ ~Saving(t)

Leave(t, p) ==
  /\ ~Modal(t) /\ p # page[t]
  /\ Spend("move")
  /\ \/ /\ HeldBack(t)
        /\ ask' = [ask EXCEPT ![t] = TRUE]
        /\ pending' = [pending EXCEPT ![t] = p]
        /\ UNCHANGED <<late, page, base, draft, orig, sent, leaving>>
     \/ /\ ~HeldBack(t)
        /\ Enter(t, p)
        /\ late' = late \cup Orphans(t)
  /\ UNCHANGED <<server, confirm>>

(* Stay closes the dialog; the destination is kept, and a Save & leave that  *)
(* is already in flight still goes there.                                    *)
Stay(t) ==
  /\ ask[t]
  /\ ask' = [ask EXCEPT ![t] = FALSE]
  /\ UNCHANGED <<server, late, page, base, draft, orig, sent, pending, confirm, leaving, spent>>

-----------------------------------------------------------------------------
(* The edit button of a group or of the note; another group is closed by it. *)
StartEdit(t, d) ==
  /\ page[t] \in {"groups", "home"} /\ draft[t][d] = Null /\ base[t][d] # Gone
  /\ ~Modal(t)
  /\ Spend("edit")
  /\ draft' = [draft EXCEPT ![t] = [NoDrafts(page[t]) EXCEPT ![d] = base[t][d]]]
  /\ orig' = [orig EXCEPT ![t][d] = base[t][d]]
  /\ UNCHANGED <<server, late, page, base, sent, ask, pending, confirm, leaving>>

(* ensureDraft: the copy of a user is made by the first edit, and only then. *)
\* Mutant: every edit begins from the listed row.
FreshDraft(t, d) == base[t][d]
EnsureDraft(t, d) == IF draft[t][d] = Null THEN base[t][d] ELSE draft[t][d]

Editable(t, d) == /\ ~Modal(t) /\ base[t][d] # Gone
                  /\ Locked(page[t]) => ~Saving(t)
                  /\ page[t] # "users" => draft[t][d] # Null

Typed(t, d, f, v) ==
  /\ Editable(t, d) /\ v # EnsureDraft(t, d)[f]
  /\ Spend("edit")
  /\ draft' = [draft EXCEPT ![t][d] = [EnsureDraft(t, d) EXCEPT ![f] = v]]
  /\ orig' = [orig EXCEPT ![t][d] = IF draft[t][d] = Null THEN base[t][d] ELSE @]
  /\ UNCHANGED <<server, late, page, base, sent, ask, pending, confirm, leaving>>

EditForm(t, d, f, v) == Eager(page[t]) /\ Typed(t, d, f, v)
EditUser(t, d, f, v) == page[t] = "users" /\ Typed(t, d, f, v)
EditText(t, d, f, v) == page[t] \in {"groups", "home"} /\ (d = "note" => f = "a") /\ Typed(t, d, f, v)
Edit(t, d, f, v) == EditForm(t, d, f, v) \/ EditUser(t, d, f, v) \/ EditText(t, d, f, v)

(* reset of the configuration and of the mail page, resetSettings, and the   *)
(* others that only forget their copies.                                     *)
ConfigReset(rows) == [d \in {"config"} |-> ConfigCopy(rows[d])]
\* Mutant: the secret boxes keep what was typed.
FieldsReset(rows) == [d \in {"mail"} |-> [a |-> rows[d].a, b |-> CHOOSE v \in Values : v # Blank]]
MailReset(rows) == [d \in {"mail"} |-> MailCopy(rows[d])]
SettingsReset(t) == [d \in {"event"} |-> IF base[t][d] = Gone THEN draft[t][d] ELSE SettingsCopy(base[t][d])]
Dropped(t) ==
  CASE page[t] = "config" -> ConfigReset(base[t]) [] page[t] = "mail" -> MailReset(base[t])
    [] page[t] = "settings" -> SettingsReset(t) [] OTHER -> NoDrafts(page[t])

Discard(t) ==
  /\ Dirty(t) /\ ~Saving(t) /\ ~Modal(t)
  /\ draft' = [draft EXCEPT ![t] = Dropped(t)]
  /\ UNCHANGED <<server, late, page, base, orig, sent, ask, pending, confirm, leaving, spent>>

(* proceed: the navigation is tried again, and the guard with it. *)
Clean(t, copies, rows) == DirtyIn(t, copies, rows, orig[t]) = {}

DiscardAndLeave(t) ==
  /\ ask[t] /\ ~Saving(t)
  /\ \/ /\ Clean(t, Dropped(t), base[t])
        /\ Enter(t, pending[t])
     \/ /\ ~Clean(t, Dropped(t), base[t])
        /\ draft' = [draft EXCEPT ![t] = Dropped(t)]
        /\ UNCHANGED <<page, base, orig, sent, ask, pending, leaving>>
  /\ UNCHANGED <<server, late, confirm, spent>>

-----------------------------------------------------------------------------
(* The save bar, or Save & leave of the dialog: one request for every row of *)
(* docs, each with the whole copy.                                           *)
Send(t, docs) ==
  /\ docs # {} /\ ~Saving(t) /\ confirm[t] = Null
  /\ Spend("save")
  /\ sent' = [sent EXCEPT ![t] = [d \in docs |->
                 [body |-> draft[t][d], at |-> "wire", reply |-> draft[t][d]]]]
  /\ leaving' = [leaving EXCEPT ![t] = ask[t]]
  /\ UNCHANGED <<server, late, page, base, draft, orig, ask, pending, confirm>>

SaveConfig(t) == page[t] = "config" /\ Send(t, DirtyDocs(t))
SaveMail(t) == page[t] = "mail" /\ Send(t, DirtyDocs(t))
SaveSettings(t) == page[t] = "settings" /\ Send(t, DirtyDocs(t))
SaveEdit(t) == page[t] = "groups" /\ Send(t, DirtyDocs(t))
SaveAll(t) == page[t] = "users" /\ Send(t, DirtyDocs(t))
SaveNote(t) == page[t] = "home" /\ Send(t, {d \in {"note"} : draft[t][d] # Null})

Save(t) == \/ SaveConfig(t) \/ SaveMail(t) \/ SaveSettings(t)
           \/ SaveEdit(t) \/ SaveAll(t) \/ SaveNote(t)

(* saveMailConfig: the stored secret stays where none is sent. *)
\* Mutant: an empty secret is stored.
AsSent(body) == body
MailMerged(body) == IF body.b = Blank THEN [body EXCEPT !.b = Current("mail").b] ELSE body
Merged(d, body) == IF d = "mail" THEN MailMerged(body) ELSE body

(* The row is written, its cache dropped, the semaphore resized. *)
\* Mutant: the cache outlives the write.
WriteRow(d, r) ==
  /\ table' = [table EXCEPT ![d] = r]
  /\ width' = IF d = "config" THEN r.a ELSE width
  /\ UNCHANGED cache
Write(d, r) ==
  /\ table' = [table EXCEPT ![d] = r]
  /\ cache' = IF d \in Cached THEN [cache EXCEPT ![d] = Null] ELSE cache
  /\ width' = IF d = "config" THEN r.a ELSE width

(* A request reaches its handler, which stores it or refuses it. *)
Settle(t, d, at, reply) ==
  sent' = [sent EXCEPT ![t][d] = [body |-> sent[t][d].body, at |-> at, reply |-> reply]]

Handle(t, d) ==
  /\ Saving(t) /\ d \in DOMAIN sent[t] /\ sent[t][d].at = "wire"
  /\ \/ /\ table[d] # Gone
        /\ Write(d, Merged(d, sent[t][d].body))
        /\ Settle(t, d, "stored", IF d = "mail" THEN Redacted(sent[t][d].body) ELSE sent[t][d].body)
     \/ /\ Settle(t, d, "refused", sent[t][d].reply)
        /\ UNCHANGED server
  /\ UNCHANGED <<late, page, base, draft, orig, ask, pending, confirm, leaving, spent>>

HandleLate(x) ==
  /\ late' = late \ {x}
  /\ \/ table[x[1]] # Gone /\ Write(x[1], Merged(x[1], x[2]))
     \/ UNCHANGED server
  /\ UNCHANGED <<tab, spent>>

(* The rows a page shows after its save: the answer itself, or the list read *)
(* again.                                                                    *)
Answer(t) == IF Locked(page[t]) THEN Loaded(page[t])
             ELSE [d \in DocsOf(page[t]) |-> sent[t][d].reply]

Saved(t) ==
  /\ Saving(t) /\ \A d \in DOMAIN sent[t] : sent[t][d].at = "stored"
  /\ \/ /\ leaving[t] /\ Clean(t, Copies(page[t], Answer(t)), Answer(t))
        /\ Enter(t, pending[t])
     \/ /\ ~(leaving[t] /\ Clean(t, Copies(page[t], Answer(t)), Answer(t)))
        /\ base' = [base EXCEPT ![t] = Answer(t)]
        /\ draft' = [draft EXCEPT ![t] = Copies(page[t], Answer(t))]
        /\ orig' = [orig EXCEPT ![t] = Answer(t)]
        /\ sent' = [sent EXCEPT ![t] = Null]
        /\ leaving' = [leaving EXCEPT ![t] = FALSE]
        /\ UNCHANGED <<page, ask, pending>>
  /\ UNCHANGED <<server, late, confirm, spent>>

(* Promise.all fails with its first failure: the page stops waiting for the  *)
(* others and keeps its copies; the users page reads its list again.         *)
SaveFailed(t) ==
  /\ Saving(t) /\ \E d \in DOMAIN sent[t] : sent[t][d].at = "refused"
  /\ late' = late \cup Orphans(t)
  /\ base' = [base EXCEPT ![t] = IF page[t] = "users" THEN Loaded("users") ELSE @]
  /\ sent' = [sent EXCEPT ![t] = Null]
  /\ leaving' = [leaving EXCEPT ![t] = FALSE]
  /\ UNCHANGED <<server, page, draft, orig, ask, pending, confirm, spent>>

-----------------------------------------------------------------------------
(* useConfirm: a deletion is asked for, and run by the accept at most once. *)
AskDelete(t, d) ==
  /\ page[t] \in {"settings", "groups", "users"} /\ ~Modal(t) /\ base[t][d] # Gone
  /\ page[t] = "groups" => draft[t][d] = Null
  /\ Spend("event")
  /\ confirm' = [confirm EXCEPT ![t] = d]
  /\ UNCHANGED <<server, late, page, base, draft, orig, sent, ask, pending, leaving>>

CancelDelete(t) ==
  /\ confirm[t] # Null
  /\ confirm' = [confirm EXCEPT ![t] = Null]
  /\ UNCHANGED <<server, late, page, base, draft, orig, sent, ask, pending, leaving, spent>>

Accept(t, d) ==
  /\ confirm[t] = d /\ d # Null
  /\ confirm' = [confirm EXCEPT ![t] = Null]
  /\ table' = [table EXCEPT ![d] = Gone]
  /\ UNCHANGED <<cache, width, spent>>

Relisted(t, d) == [e \in DocsOf(page[t]) |-> IF e = d THEN Gone ELSE View(e)]

RemoveGroup(t, g) ==
  /\ page[t] = "groups" /\ Accept(t, g)
  /\ base' = [base EXCEPT ![t] = Relisted(t, g)]
  /\ UNCHANGED <<late, page, draft, orig, sent, ask, pending, leaving>>

DeleteUser(t, u) ==
  /\ page[t] = "users" /\ Accept(t, u)
  /\ base' = [base EXCEPT ![t] = Relisted(t, u)]
  /\ draft' = [draft EXCEPT ![t][u] = Null]
  /\ UNCHANGED <<late, page, orig, sent, ask, pending, leaving>>

(* The page leaves for the list of events, past its own guard. *)
DeleteThisEvent(t) ==
  /\ page[t] = "settings" /\ Accept(t, "event")
  /\ \/ /\ HeldBack(t)
        /\ ask' = [ask EXCEPT ![t] = TRUE]
        /\ pending' = [pending EXCEPT ![t] = "home"]
        /\ UNCHANGED <<late, page, base, draft, orig, sent, leaving>>
     \/ /\ ~HeldBack(t)
        /\ Enter(t, "home")
        /\ late' = late \cup Orphans(t)

-----------------------------------------------------------------------------
(* Other operations of a page end with its list read again beneath the copies. *)
Reread(t, p) ==
  /\ page[t] = p /\ ~Modal(t)
  /\ Spend("event")
  /\ base' = [base EXCEPT ![t] = Loaded(p)]
  /\ UNCHANGED <<server, late, page, draft, orig, sent, ask, pending, confirm, leaving>>

CreateGroup(t) == Reread(t, "groups")
CreateInvite(t) == Reread(t, "groups")
RemoveInvite(t) == Reread(t, "groups")
SaveAnnouncement(t) == Reread(t, "users")

(* The library of post schemas is saved beside the fields of the mail page. *)
SaveSchemas ==
  /\ Spend("event")
  /\ Write("mail", MailMerged(Redacted(Current("mail"))))
  /\ UNCHANGED <<late, tab>>

(* A registration takes the newest announcement off the pool. *)
PopAnnouncement ==
  /\ Current("config").b > 0
  /\ Spend("event")
  /\ table' = [table EXCEPT !["config"] = [Current("config") EXCEPT !.b = @ - 1]]
  /\ cache' = [cache EXCEPT !["config"] = Null]
  /\ UNCHANGED <<width, late, tab>>

(* Anything that asks for a configuration fills its cache. *)
ReadConfig(d) ==
  /\ cache[d] = Null
  /\ Spend("event")
  /\ cache' = [cache EXCEPT ![d] = table[d]]
  /\ UNCHANGED <<table, width, late, tab>>

(* The app restarts: the caches are gone, the semaphore has the stored width,*)
(* and every request without an answer fails in its page.                    *)
Restart ==
  /\ Spend("event")
  /\ cache' = [d \in Cached |-> Null]
  /\ width' = table["config"].a
  /\ late' = {}
  /\ sent' = [t \in Tabs |-> IF Saving(t) THEN [d \in DOMAIN sent[t] |-> [sent[t][d] EXCEPT !.at = "refused"]]
                             ELSE Null]
  /\ UNCHANGED <<table, page, base, draft, orig, ask, pending, confirm, leaving>>

-----------------------------------------------------------------------------
ConsoleNext ==
  \/ \E t \in Tabs :
       \/ \E p \in Pages : Leave(t, p)
       \/ Stay(t) \/ Discard(t) \/ DiscardAndLeave(t)
       \/ \E d \in DocsOf(page[t]) :
            \/ StartEdit(t, d) \/ Handle(t, d) \/ AskDelete(t, d)
            \/ RemoveGroup(t, d) \/ DeleteUser(t, d)
            \/ \E f \in Fields, v \in Values : Edit(t, d, f, v)
       \/ Save(t) \/ Saved(t) \/ SaveFailed(t)
       \/ CancelDelete(t) \/ DeleteThisEvent(t)
       \/ CreateGroup(t) \/ CreateInvite(t) \/ RemoveInvite(t) \/ SaveAnnouncement(t)
  \/ \E x \in late : HandleLate(x)
  \/ SaveSchemas \/ PopAnnouncement \/ Restart
  \/ \E d \in Cached : ReadConfig(d)

ConsoleSpec == ConsoleInit /\ [][ConsoleNext]_consoleVars

-----------------------------------------------------------------------------
(* What an administrator typed and the page does not know to be stored. *)
Unsaved(t, d, f) == /\ d \in DocsOf(page[t]) /\ draft[t][d] # Null
                    /\ base[t][d] # Gone /\ orig[t][d] # Gone
                    /\ draft[t][d][f] \notin {orig[t][d][f], base[t][d][f]}

Lost(t, d, f) == Unsaved(t, d, f) /\ (\/ page'[t] # page[t]
                                      \/ draft'[t][d] = Null
                                      \/ draft'[t][d][f] # draft[t][d][f])

\* The steps that may take it out of the form.
Released(t, d, f) ==
  \/ page[t] = "home"
  \/ \E v \in Values : Edit(t, d, f, v)
  \/ Discard(t) \/ DiscardAndLeave(t) \/ confirm[t] = d
  \/ \E e \in FormGroups : StartEdit(t, e)
  \/ Saving(t) /\ \E p \in Pages : Leave(t, p)
  \/ Saved(t) /\ page[t] = "users" /\ d \notin DOMAIN sent[t]
  \/ /\ Saved(t) /\ d \in DOMAIN sent[t]
     /\ \/ sent[t][d].body[f] = draft[t][d][f]
        \/ ~Locked(page[t]) /\ sent[t][d].body[f] # draft[t][d][f]

(* What the administrator typed leaves the form only by their own hand       *)
(* (retyped, discarded, another group opened, the row deleted), because the  *)
(* server has stored it, or, with a save in flight, by leaving the page or   *)
(* by typing into a page that does not lock its inputs.  The users page also *)
(* forgets the copies that its list agreed with when the save went out.      *)
(* Refreshes, the failure of one of several requests, restarts and other     *)
(* tabs never take anything away (users.vue:97 draft.value = {}).            *)
EditsSurvive ==
  [][\A t \in Tabs, d \in Docs, f \in Fields : Lost(t, d, f) => Released(t, d, f)]_consoleVars

(* "so the user actually lands on the page they originally clicked instead of *)
(* being stranded" (useUnsavedLeaveGuard): after Discard, and after a Save &   *)
(* leave that succeeded, the guard asks no second time.                        *)
NeverStranded ==
  [][\A t \in Tabs :
       /\ DiscardAndLeave(t) => page'[t] = pending[t]
       /\ Saved(t) /\ leaving[t] => page'[t] = pending[t]]_consoleVars

(* A stored mail secret is replaced by another, and never erased by a page    *)
(* that does not know it (mail-config: "leaves the stored value intact").      *)
SecretSurvives == [][table["mail"].b # Blank => table'["mail"].b # Blank]_consoleVars

(* A save is in force at once and stays so: no cache holds an older row, and   *)
(* the semaphore has the width of the stored configuration, after saves,       *)
(* registrations and restarts in any order.                                    *)
HotReloaded == /\ \A d \in Cached : cache[d] # Null => cache[d] = table[d]
               /\ width = table["config"].a

(* Stored rows, caches and forms stay in step (config-store.ts:26).         *)
ConsoleInv == ConsoleTypeOK /\ HotReloaded
=============================================================================
