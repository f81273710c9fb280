--------------------------------- MODULE Roster ---------------------------------
(***************************************************************************)
(* Participants and their passwords (modules/participants.ts); schedules and  *)
(* who is enrolled in them (modules/schedules.ts, but the building of         *)
(* packages).  Attempts come from results ingest.                            *)
(*                                                                         *)
(* A participant is known by the number, which PATCH is taken to leave alone, *)
(* a password by the number of the request that chose it.                    *)
(***************************************************************************)
EXTENDS Rows

CONSTANTS
  Site, Participant, Schedule,
  ImportRow,  \* rows to import: number, perhaps a site, given: with a password
  Times,      \* times a session may begin or end at
  Admin,      \* requests that may be under way at one time
  MaxPasswords

PersonRow == [site : Site \cup {None}, active : BOOLEAN, password : Nat]
SessionRow == [site : Site, status : {"draft", "published", "closed"}, start : Times, end : Times]

ASSUME RosterAssumption ==
  /\ None \notin Admin \cup PersonRow \cup SessionRow
  /\ \A row \in ImportRow : row.number \in Participant

VARIABLES
  participant,  \* Participant -> [site, active, password] or None
  schedule,     \* Schedule -> [site, status, start, end] or None
  enrolled, attempt,  \* pairs <<schedule, participant>>
  admin,        \* Admin -> the request and what it has read
  passwords,    \* passwords chosen so far
  card,         \* history: Participant -> the password last told to an administrator, or None
  doubtful,     \* history: participants whose password two requests set at a time, or one that
                \* never answered, or that an import made a password for and left alone, and
                \* that no request alone has set since
  shut          \* history: schedules closed and not opened again by a PATCH or by a publish
                \* that began before

people == <<participant, passwords, card, doubtful>>
sessions == <<schedule, enrolled, attempt, shut>>
rosterVars == <<people, sessions, admin>>

RosterInit ==
  /\ participant = [p \in Participant |-> None]
  /\ schedule = [s \in Schedule |-> None]
  /\ enrolled = {} /\ attempt = {} /\ shut = {}
  /\ admin = [c \in Admin |-> Idle]
  /\ passwords = 0 /\ doubtful = {}
  /\ card = [p \in Participant |-> None]

Ended(c) == admin' = [admin EXCEPT ![c] = Idle]
Busy(c, request) == admin' = [admin EXCEPT ![c] = request]

\* A request that has the passwords secret still to set for todo, and then to answer with all.
Telling(todo, secret) == [op |-> "tell", todo |-> todo, secret |-> secret]

\* Participants whose passwords requests other than c are about to change or to tell.
Handled(c) ==
  UNION {DOMAIN admin[d].secret : d \in {x \in Admin \ {c} : admin[x].op \in {"import", "tell", "stray"}}}

\* Request c sets passwords of ps: of several at a time none is sure of its own, one alone is.
Doubts(c, ps) == (doubtful \ ps) \cup (ps \cap Handled(c))

(***************************************************************************)
(* Participants.                                                            *)
(***************************************************************************)
\* The row is committed before the audit entry and the answer, which tells the password.
CreateParticipant ==
  \E c \in Admin, p \in Participant \ Existing(participant), site \in Site \cup {None} :
    /\ At(admin, c, "idle")
    /\ passwords < MaxPasswords /\ passwords' = passwords + 1
    /\ participant' = [participant EXCEPT ![p] = [site |-> site, active |-> TRUE, password |-> passwords']]
    /\ Busy(c, Telling({}, [x \in {p} |-> passwords']))
    /\ doubtful' = Doubts(c, {p})
    /\ UNCHANGED <<card, sessions>>

PatchParticipant ==
  \E p \in Existing(participant) :
    \/ /\ \E active \in BOOLEAN, site \in Site \cup {None} :
             participant' = [participant EXCEPT ![p].active = active, ![p].site = site]
       /\ UNCHANGED <<passwords, card, doubtful, sessions, admin>>
    \/ \E c \in Admin :
         /\ At(admin, c, "idle")
         /\ passwords < MaxPasswords /\ passwords' = passwords + 1
         /\ participant' = [participant EXCEPT ![p].password = passwords']
         /\ Busy(c, Telling({}, [x \in {p} |-> passwords']))
         /\ doubtful' = Doubts(c, {p})
         /\ UNCHANGED <<card, sessions>>

\* Refused while there are attempts; enrolments go along.
DeleteParticipant ==
  \E p \in Existing(participant) :
    /\ \A s \in Schedule : <<s, p>> \notin attempt
    /\ participant' = [participant EXCEPT ![p] = None]
    /\ enrolled' = {e \in enrolled : e[2] # p}
    /\ UNCHANGED <<passwords, card, doubtful, schedule, attempt, shut, admin>>

\* A row without a site leaves the site alone.
SiteIn(row, otherwise) == IF "site" \in DOMAIN row THEN row.site ELSE otherwise

\* import reads which numbers exist and prepares all rows: new ones and rows with a
\* password get one.  Only passwords of its own are numbered: one number for all.
BeginImport ==
  \E c \in Admin, rows \in SUBSET ImportRow, update \in BOOLEAN :
    /\ At(admin, c, "idle") /\ rows # {} /\ passwords < MaxPasswords
    /\ \A x, y \in rows : x.number = y.number => x = y
    /\ \A row \in rows : SiteIn(row, None) \in Site \cup {None}
    /\ LET told == {row.number : row \in {x \in rows : x.given \/ participant[x.number] = None}}
           new == {row \in rows : participant[row.number] = None}
           left == IF update THEN {} ELSE told \cap Existing(participant)
       IN /\ Busy(c, [op |-> "import", rows |-> rows, new |-> new, update |-> update,
                      secret |-> [p \in told |-> passwords + 1]])
          /\ doubtful' = doubtful \cup (told \cap Handled(c)) \cup left
    /\ passwords' = passwords + 1
    /\ UNCHANGED <<participant, card, sessions>>

\* Mutant: an update leaves the password out.
Imported_SamePassword(old, row, secret) == [old EXCEPT !.site = SiteIn(row, @)]

Imported(old, row, secret) ==
  [old EXCEPT !.site = SiteIn(row, @),
              !.password = IF row.number \in DOMAIN secret THEN secret[row.number] ELSE @]

\* One transaction: a number that was taken meanwhile fails it and the request, a row that is
\* gone is not updated.  The passwords that were prepared are told later.
CommitImport ==
  \E c \in Admin :
    /\ At(admin, c, "import")
    /\ LET r == admin[c]
           RowOf(p) == CHOOSE row \in r.rows : row.number = p
           numbers == {row.number : row \in r.rows}
           taken == \E row \in r.new : participant[row.number] # None
       IN IF taken THEN Ended(c) /\ UNCHANGED participant
          ELSE /\ participant' = [p \in Participant |->
                     IF p \notin numbers THEN participant[p]
                     ELSE IF RowOf(p) \in r.new
                     THEN [site |-> SiteIn(RowOf(p), None), active |-> TRUE, password |-> r.secret[p]]
                     ELSE IF r.update /\ participant[p] # None
                     THEN Imported(participant[p], RowOf(p), r.secret) ELSE participant[p]]
               /\ Busy(c, Telling({}, r.secret))
    /\ UNCHANGED <<passwords, card, doubtful, sessions>>

BeginReset ==
  \E c \in Admin, chosen \in SUBSET Existing(participant) :
    /\ At(admin, c, "idle") /\ chosen # {} /\ passwords < MaxPasswords
    /\ Busy(c, Telling(chosen, [p \in chosen |-> passwords + 1]))
    /\ passwords' = passwords + 1
    /\ doubtful' = Doubts(c, chosen)
    /\ UNCHANGED <<participant, card, sessions>>

\* One UPDATE per participant, without a transaction, in any order.
ResetOne ==
  \E c \in Admin :
    /\ At(admin, c, "tell") \/ At(admin, c, "stray")
    /\ \E p \in admin[c].todo :
         /\ admin' = [admin EXCEPT ![c].todo = @ \ {p}]
         /\ participant' = [participant EXCEPT ![p] =
              IF @ = None THEN None ELSE [@ EXCEPT !.password = admin[c].secret[p]]]
    /\ UNCHANGED <<passwords, card, doubtful, sessions>>

\* An UPDATE fails: the answer is an error, and mapLimit goes on with the others.
ResetFails ==
  \E c \in Admin :
    /\ At(admin, c, "tell")
    /\ \E p \in admin[c].todo : Busy(c, [Telling(admin[c].todo \ {p}, admin[c].secret) EXCEPT !.op = "stray"])
    /\ doubtful' = doubtful \cup DOMAIN admin[c].secret
    /\ UNCHANGED <<participant, passwords, card, sessions>>

\* After all rows and the audit entry: the answer with the passwords, and the cards printed.
Answer ==
  \E c \in Admin :
    /\ At(admin, c, "tell") /\ admin[c].todo = {}
    /\ card' = Over(admin[c].secret, card)
    /\ Ended(c)
    /\ UNCHANGED <<participant, passwords, doubtful, sessions>>

\* A request ends without its answer at any step: the API dies, the audit entry fails, the
\* answer is lost, or a reset that failed has nothing left to do.  What was to be told is not.
AdminDies ==
  \E c \in Admin :
    /\ ~At(admin, c, "idle")
    /\ doubtful' = doubtful \cup (IF At(admin, c, "tell") THEN DOMAIN admin[c].secret ELSE {})
    /\ Ended(c)
    /\ UNCHANGED <<participant, passwords, card, sessions>>

(***************************************************************************)
(* Schedules.                                                               *)
(***************************************************************************)
TimesOK(old, b) == LET new == Over(b, old) IN new.start < new.end

NewSession(site, b) == [site |-> site, status |-> "draft", start |-> b.start, end |-> b.end]

\* POST one schedule, or /bulk one after the other for several sites; each with the
\* participants of its site if bulk is to enrol them.  The id is new: no request knows it.
CreateSchedule ==
  \E s \in Schedule \ Existing(schedule), site \in Site, start, end \in Times, enrol \in BOOLEAN :
    /\ TimesOK([start |-> start, end |-> end], [start |-> start])
    /\ \A c \in Admin : "schedule" \in DOMAIN admin[c] => admin[c].schedule # s
    /\ schedule' = [schedule EXCEPT ![s] = NewSession(site, [start |-> start, end |-> end])]
    /\ enrolled' = enrolled \cup
         (IF enrol THEN {<<s, p>> : p \in {x \in Existing(participant) : participant[x].site = site}} ELSE {})
    /\ UNCHANGED <<people, attempt, shut, admin>>

Bodies == {[start |-> t] : t \in Times} \cup {[end |-> t] : t \in Times}
          \cup {[status |-> v] : v \in {"draft", "published", "closed"}}

BeginPatchSchedule ==
  \E c \in Admin, s \in Existing(schedule), b \in Bodies :
    /\ At(admin, c, "idle") /\ TimesOK(schedule[s], b)
    /\ Busy(c, [op |-> "patch", schedule |-> s, body |-> b])
    /\ UNCHANGED <<people, sessions>>

EndPatchSchedule ==
  \E c \in Admin :
    /\ At(admin, c, "patch")
    /\ LET s == admin[c].schedule
           b == admin[c].body
       IN /\ schedule' = [schedule EXCEPT ![s] = IF @ = None THEN None ELSE Over(b, @)]
          /\ shut' = IF "status" \in DOMAIN b THEN shut \ {s} ELSE shut
    /\ Ended(c)
    /\ UNCHANGED <<people, enrolled, attempt>>

Publishing(s) == \E c \in Admin : At(admin, c, "publish") /\ admin[c].schedule = s

Close ==
  \E s \in Existing(schedule) :
    /\ schedule' = [schedule EXCEPT ![s].status = "closed"]
    /\ shut' = IF Publishing(s) THEN shut ELSE shut \cup {s}
    /\ UNCHANGED <<people, enrolled, attempt, admin>>

\* Mutant: closed schedules are published like others.
MayPublish_Always(s) == TRUE

MayPublish(s) == schedule[s].status # "closed"

BeginPublish ==
  \E c \in Admin, s \in Existing(schedule) :
    /\ At(admin, c, "idle") /\ MayPublish(s)
    /\ Busy(c, [op |-> "publish", schedule |-> s])
    /\ UNCHANGED <<people, sessions>>

\* The transaction of publishSchedule: the row is locked, its status not looked at again.
EndPublish ==
  \E c \in Admin :
    /\ At(admin, c, "publish")
    /\ LET s == admin[c].schedule
       IN schedule' = [schedule EXCEPT ![s] = IF @ = None THEN None ELSE [@ EXCEPT !.status = "published"]]
    /\ Ended(c)
    /\ UNCHANGED <<people, enrolled, attempt, shut>>

\* DELETE looks for attempts first ...
BeginDeleteSchedule ==
  \E c \in Admin, s \in Existing(schedule) :
    /\ At(admin, c, "idle") /\ \A p \in Participant : <<s, p>> \notin attempt
    /\ Busy(c, [op |-> "delete", schedule |-> s])
    /\ UNCHANGED <<people, sessions>>

\* Mutant: attempts go with their schedule.
Erasable_Always(s) == TRUE

\* ... and attempts that came meanwhile forbid it (onDelete restrict).
Erasable(s) == \A p \in Participant : <<s, p>> \notin attempt

EndDeleteSchedule ==
  \E c \in Admin :
    /\ At(admin, c, "delete")
    /\ LET s == admin[c].schedule
       IN IF Erasable(s)
          THEN /\ schedule' = [schedule EXCEPT ![s] = None]
               /\ enrolled' = {e \in enrolled : e[1] # s}
               /\ shut' = shut \ {s}
          ELSE UNCHANGED <<schedule, enrolled, shut>>
    /\ Ended(c)
    /\ UNCHANGED <<people, attempt>>

\* The selection is read first (by id, group or site: any set); one that is gone when the
\* rows are inserted fails them all, those enrolled already are passed over.
BeginEnrol ==
  \E c \in Admin, s \in Existing(schedule), chosen \in SUBSET Existing(participant) :
    /\ At(admin, c, "idle") /\ chosen # {}
    /\ Busy(c, [op |-> "enrol", schedule |-> s, chosen |-> chosen])
    /\ UNCHANGED <<people, sessions>>

EndEnrol ==
  \E c \in Admin :
    /\ At(admin, c, "enrol")
    /\ LET r == admin[c]
       IN enrolled' = IF schedule[r.schedule] # None /\ r.chosen \subseteq Existing(participant)
                      THEN enrolled \cup {<<r.schedule, p>> : p \in r.chosen} ELSE enrolled
    /\ Ended(c)
    /\ UNCHANGED <<people, schedule, attempt, shut>>

Unenrol ==
  \E e \in enrolled :
    /\ enrolled' = enrolled \ {e}
    /\ UNCHANGED <<people, schedule, attempt, shut, admin>>

\* External: a site that holds a package sends an attempt.
AttemptArrives ==
  \E s \in Existing(schedule), p \in Existing(participant) :
    /\ schedule[s].status # "draft"
    /\ attempt' = attempt \cup {<<s, p>>}
    /\ UNCHANGED <<people, schedule, enrolled, shut, admin>>

ScheduleNext ==
  \/ CreateSchedule \/ BeginPatchSchedule \/ EndPatchSchedule \/ Close
  \/ BeginPublish \/ EndPublish \/ BeginDeleteSchedule \/ EndDeleteSchedule
  \/ BeginEnrol \/ EndEnrol \/ Unenrol \/ AttemptArrives

ParticipantNext ==
  \/ CreateParticipant \/ PatchParticipant \/ DeleteParticipant \/ BeginImport \/ CommitImport
  \/ BeginReset \/ ResetOne \/ ResetFails \/ Answer

RosterNext == ParticipantNext \/ ScheduleNext \/ AdminDies

RosterSpec == RosterInit /\ [][RosterNext]_rosterVars

--------------------------------------------------------------------------------
(***************************************************************************)
(* Properties.                                                              *)
(***************************************************************************)
\* Type invariant; attempts and enrolments keep their schedule and their participant,
\* although requests look for them long before they write.
RosterTypeOK ==
  /\ \A p \in Existing(participant) : participant[p].password \in 1..passwords
  /\ \A s \in Existing(schedule) : schedule[s].status \in {"draft", "published", "closed"}
  /\ \A e \in attempt \cup enrolled : schedule[e[1]] # None /\ participant[e[2]] # None
  /\ doubtful \subseteq Participant /\ shut \subseteq Existing(schedule)

\* Passwords that are set, or are about to be by a reset, and not told yet.
Untold == UNION {DOMAIN admin[c].secret : c \in {x \in Admin : At(admin, x, "tell")}}

\* participants.ts: the password printed on a card, the one last told to an administrator,
\* opens the account, whatever requests came before, were refused, died or lost their
\* answers, if the last that set the password was alone and has answered.
CardOpens ==
  \A p \in Existing(participant) \ (doubtful \cup Untold) :
    card[p] # None => participant[p].password = card[p]

\* A closed session is opened again by a PATCH or a publish that began before only: no
\* other request publishes it.
ClosedStaysClosed == \A s \in shut : schedule[s].status = "closed"
================================================================================
