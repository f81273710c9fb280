---------------------------- MODULE BackOfficeProofs ----------------------------
(***************************************************************************)
(* Proofs about Roster, Authoring and PackageContents, for any tables and any  *)
(* requests that overlap or die: cards open accounts, closed schedules stay    *)
(* closed, versions and structures stay sound, packages are closed snapshots.  *)
(***************************************************************************)
EXTENDS BackOffice, AccountsAndFilesProofs

(* Values.                                                                   *)

LEMMA NewPerson ==
  ASSUME NEW site \in Site \cup {None}, NEW password \in Nat
  PROVE  /\ [site |-> site, active |-> TRUE, password |-> password] \in PersonRow
         /\ [site |-> site, active |-> TRUE, password |-> password].password = password
BY DEF PersonRow

LEMMA PersonMoved ==
  ASSUME NEW old \in PersonRow, NEW site \in Site \cup {None}, NEW active \in BOOLEAN
  PROVE  /\ [old EXCEPT !.active = active, !.site = site] \in PersonRow
         /\ [old EXCEPT !.active = active, !.site = site].password = old.password
BY DEF PersonRow

LEMMA PersonUpdated ==
  ASSUME NEW old \in PersonRow, NEW site \in Site \cup {None}, NEW password \in Nat
  PROVE  /\ [old EXCEPT !.site = site, !.password = password] \in PersonRow
         /\ [old EXCEPT !.site = site, !.password = password].password = password
BY DEF PersonRow

LEMMA PersonReset ==
  ASSUME NEW old \in PersonRow, NEW password \in Nat
  PROVE  /\ [old EXCEPT !.password = password] \in PersonRow
         /\ [old EXCEPT !.password = password].password = password
BY DEF PersonRow

\* A PATCH has one field, and may set the status.
LEMMA SessionPatched ==
  ASSUME NEW old \in SessionRow, NEW b \in Bodies
  PROVE  /\ Over(b, old) \in SessionRow
         /\ "status" \notin DOMAIN b => Over(b, old).status = old.status
<1>1. CASE \E t \in Times : b = [start |-> t]
  BY <1>1 DEF SessionRow, Over
<1>2. CASE \E t \in Times : b = [end |-> t]
  BY <1>2 DEF SessionRow, Over
<1>3. CASE \E v \in {"draft", "published", "closed"} : b = [status |-> v]
  BY <1>3 DEF SessionRow, Over
<1>4. QED
  BY <1>1, <1>2, <1>3 DEF Bodies

LEMMA TodoReduced ==
  ASSUME NEW r, DOMAIN r = {"op", "todo", "secret"}, NEW x
  PROVE  /\ DOMAIN [r EXCEPT !.todo = x] = {"op", "todo", "secret"}
         /\ [r EXCEPT !.todo = x].todo = x
         /\ [r EXCEPT !.todo = x].op = r.op
         /\ [r EXCEPT !.todo = x].secret = r.secret
OBVIOUS

LEMMA TellingIs ==
  ASSUME NEW todo, NEW secret
  PROVE  LET r == Telling(todo, secret)
             stray == [r EXCEPT !.op = "stray"]
         IN /\ DOMAIN r = {"op", "todo", "secret"} /\ r.op = "tell" /\ r.todo = todo /\ r.secret = secret
            /\ DOMAIN stray = {"op", "todo", "secret"} /\ stray.op = "stray"
            /\ stray.todo = todo /\ stray.secret = secret
BY DEF Telling
--------------------------------------------------------------------------------
(* Participants and schedules.                                               *)

\* Steps of requests that have passwords.
Handing == {"import", "tell", "stray"}

\* Request c is going to set or to tell the password of p ...
Hands(c, p) == admin[c].op \in Handing /\ p \in DOMAIN admin[c].secret

\* ... and is committed to do so: its answer is what fits.
Tells(c, p) == admin[c].op = "tell" /\ p \in DOMAIN admin[c].secret

RosterTyped ==
  /\ participant \in [Participant -> PersonRow \cup {None}]
  /\ schedule \in [Schedule -> SessionRow \cup {None}]
  /\ enrolled \subseteq Schedule \X Participant /\ attempt \subseteq Schedule \X Participant
  /\ DOMAIN admin = Admin /\ DOMAIN card = Participant
  /\ passwords \in Nat /\ doubtful \subseteq Participant /\ shut \subseteq Schedule

\* Passwords were chosen before they are told.
SecretOK(r) ==
  r.op \in Handing =>
    /\ DOMAIN r.secret \subseteq Participant
    /\ \A p \in DOMAIN r.secret : r.secret[p] \in 1..passwords

\* The rows of new participants have passwords; who has one and is not written is doubtful.
ImportOK(r) ==
  r.op = "import" =>
    /\ r.rows \subseteq ImportRow /\ r.new \subseteq r.rows
    /\ \A x, y \in r.rows : x.number = y.number => x = y
    /\ \A row \in r.rows : SiteIn(row, None) \in Site \cup {None}
    /\ \A row \in r.new : row.number \in DOMAIN r.secret
    /\ \A p \in DOMAIN r.secret :
         /\ \E row \in r.rows : row.number = p
         /\ r.update \/ p \in doubtful \/ \E row \in r.new : row.number = p

\* Whoever is done has the password that is going to be told; a reset that failed tells none.
TellOK(r) ==
  r.op \in {"tell", "stray"} =>
    /\ DOMAIN r = {"op", "todo", "secret"}
    /\ r.todo \subseteq DOMAIN r.secret
    /\ r.op = "stray" => DOMAIN r.secret \subseteq doubtful
    /\ \A p \in DOMAIN r.secret \ (r.todo \cup doubtful) :
         participant[p] # None => participant[p].password = r.secret[p]

OtherOK(r) ==
  /\ r.op \in {"patch", "publish", "delete", "enrol"} => r.schedule \in Schedule
  /\ r.op = "patch" => r.body \in Bodies
  /\ r.op = "enrol" => r.chosen \subseteq Participant

AdminOK(c) == SecretOK(admin[c]) /\ ImportOK(admin[c]) /\ TellOK(admin[c]) /\ OtherOK(admin[c])

OneHand ==
  \A c, d \in Admin : \A p \in Participant : Hands(c, p) /\ Hands(d, p) => c = d \/ p \in doubtful

\* Passwords are set before they are told; but for that, cards fit.
CardFits ==
  \A p \in Participant \ doubtful :
    /\ participant[p] # None /\ card[p] # None
    /\ \A c \in Admin : ~Tells(c, p)
    => participant[p].password = card[p]

PasswordsKnown == \A p \in Participant : participant[p] # None => participant[p].password \in 1..passwords

\* Attempts and enrolments keep their schedule and their participant.
ReferredStay ==
  \A s \in Schedule, p \in Participant :
    <<s, p>> \in enrolled \cup attempt => schedule[s] # None /\ participant[p] # None

\* A closed schedule has no publish under way.
ShutStays == \A s \in shut : schedule[s] # None /\ schedule[s].status = "closed" /\ ~Publishing(s)

RosterInv ==
  /\ RosterTyped
  /\ \A c \in Admin : AdminOK(c)
  /\ OneHand /\ CardFits /\ PasswordsKnown /\ ReferredStay /\ ShutStays

LEMMA RosterBegins == RosterInit => RosterInv
BY DEF RosterInit, RosterInv, RosterTyped, AdminOK, SecretOK, ImportOK, TellOK, OtherOK, OneHand,
       Hands, Handing, CardFits, PasswordsKnown, ReferredStay, ShutStays, Idle

LEMMA HandledBy ==
  ASSUME NEW c, NEW p
  PROVE  p \in Handled(c) <=> \E d \in Admin \ {c} : Hands(d, p)
BY DEF Handled, Hands, Handing

LEMMA RowsExist ==
  ASSUME NEW x
  PROVE  /\ x \in Existing(participant) <=> x \in DOMAIN participant /\ participant[x] # None
         /\ x \in Existing(schedule) <=> x \in DOMAIN schedule /\ schedule[x] # None
BY DEF Existing

\* Request c takes up new passwords: it makes sure that nobody else is about to set them, or
\* that they are doubtful.
Begun(c) ==
  /\ admin[c].op = "idle" /\ \A d \in Admin \ {c} : admin'[d] = admin[d]
  /\ admin'[c].op \in {"import", "tell"} /\ DOMAIN admin'[c].secret \subseteq Participant
  /\ \A p \in DOMAIN admin'[c].secret : admin'[c].secret[p] = passwords + 1
  /\ passwords' = passwords + 1 /\ card' = card
  /\ \A p \in Participant \ DOMAIN admin'[c].secret : participant'[p] = participant[p]
  /\ \A p \in Participant : participant'[p] = participant[p] \/ participant'[p].password = passwords + 1
  /\ admin'[c].op = "import" => participant' = participant /\ doubtful \subseteq doubtful'
  /\ doubtful' \subseteq Participant /\ doubtful \ DOMAIN admin'[c].secret \subseteq doubtful'
  /\ DOMAIN admin'[c].secret \cap Handled(c) \subseteq doubtful'
  /\ (ImportOK(admin[c]) /\ TellOK(admin[c]) /\ OtherOK(admin[c]))'

\* Request c goes on with its passwords, or ends.
Moved(c) ==
  /\ \A d \in Admin \ {c} : admin'[d] = admin[d]
  /\ doubtful \subseteq doubtful' /\ doubtful' \subseteq Participant
  /\ \/ admin'[c] = Idle
     \/ /\ admin[c].op \in Handing /\ admin'[c].op \in {"tell", "stray"}
        /\ DOMAIN admin'[c] = {"op", "todo", "secret"} /\ admin'[c].secret = admin[c].secret

\* What one step may do to the password and the card of p: nothing, ...
LeftAlone(p) ==
  /\ card'[p] = card[p]
  /\ participant'[p] # None =>
       participant[p] # None /\ participant'[p].password = participant[p].password
  /\ \A c \in Admin : Tells(c, p) => Tells(c, p)' \/ p \in doubtful'

\* ... or a request takes it up, an import commits it, a reset sets it, or an answer tells it.
PersonStep(p) ==
  \/ LeftAlone(p) /\ (p \in doubtful => p \in doubtful')
  \/ \E c \in Admin :
       /\ admin[c].op = "idle" /\ Tells(c, p)'
       /\ \A d \in Admin : Hands(d, p) => p \in doubtful'
       /\ participant'[p] # None => participant'[p] = participant[p] \/ participant'[p].password = passwords + 1
       /\ passwords' = passwords + 1
  \/ \E c \in Admin :
       /\ admin[c].op = "import" /\ Hands(c, p) /\ Tells(c, p)' /\ doubtful' = doubtful
       /\ participant'[p] # None => participant'[p].password \in 1..passwords
  \/ \E c \in Admin :
       /\ admin[c].op \in {"tell", "stray"} /\ Hands(c, p) /\ admin'[c].op = admin[c].op
       /\ Hands(c, p)' /\ doubtful' = doubtful
       /\ participant'[p] # None => participant'[p].password = admin[c].secret[p]
  \/ \E c \in Admin :
       /\ Tells(c, p) /\ admin[c].todo = {} /\ admin'[c] = Idle /\ doubtful' = doubtful
       /\ card'[p] = admin[c].secret[p] /\ participant'[p] = participant[p]

\* A PATCH that sets no password.
LEMMA PatchWithoutPassword ==
  ASSUME PatchParticipant, passwords' = passwords, passwords \in Nat
  PROVE  /\ UNCHANGED <<passwords, card, doubtful, sessions, admin>>
         /\ \E p \in Existing(participant), active \in BOOLEAN, site \in Site \cup {None} :
              participant' = [participant EXCEPT ![p].active = active, ![p].site = site]
<1>1. passwords + 1 # passwords
  OBVIOUS
<1>2. PICK p \in Existing(participant) :
        \/ /\ \E active \in BOOLEAN, site \in Site \cup {None} :
                participant' = [participant EXCEPT ![p].active = active, ![p].site = site]
           /\ UNCHANGED <<passwords, card, doubtful, sessions, admin>>
        \/ \E c \in Admin : passwords' = passwords + 1
  BY Zenon DEF PatchParticipant
<1>3. QED
  BY <1>1, <1>2

\* What the actions about schedules leave alone.
LEMMA ScheduleFrame ==
  ASSUME RosterInv, ScheduleNext
  PROVE  /\ UNCHANGED people
         /\ \A c \in Admin : \/ admin'[c] = admin[c]
                             \/ admin[c].op \notin Handing /\ admin'[c].op \notin Handing
<1> USE DEF people, RosterInv, RosterTyped, sessions, At, Busy, Ended, Idle, Handing
<1>1. CASE CreateSchedule
  BY <1>1 DEF CreateSchedule
<1>2. CASE BeginPatchSchedule
  BY <1>2 DEF BeginPatchSchedule
<1>3. CASE EndPatchSchedule
  BY <1>3 DEF EndPatchSchedule
<1>4. CASE Close
  BY <1>4 DEF Close
<1>5. CASE BeginPublish
  BY <1>5 DEF BeginPublish
<1>6. CASE EndPublish
  BY <1>6 DEF EndPublish
<1>7. CASE BeginDeleteSchedule
  BY <1>7 DEF BeginDeleteSchedule
<1>8. CASE EndDeleteSchedule
  BY <1>8 DEF EndDeleteSchedule
<1>9. CASE BeginEnrol
  BY <1>9 DEF BeginEnrol
<1>10. CASE EndEnrol
  BY <1>10 DEF EndEnrol
<1>11. CASE Unenrol
  BY <1>11 DEF Unenrol
<1>12. CASE AttemptArrives
  BY <1>12 DEF AttemptArrives
<1>13. QED
  BY <1>1, <1>2, <1>3, <1>4, <1>5, <1>6, <1>7, <1>8, <1>9, <1>10, <1>11, <1>12 DEF ScheduleNext

\* What an import writes: the password it is going to tell, or one that is doubtful.
LEMMA ImportedPerson ==
  ASSUME RosterInv, NEW c \in Admin, NEW p \in Participant,
         admin[c].op = "import",
         LET r == admin[c]
             RowOf(x) == CHOOSE row \in r.rows : row.number = x
             numbers == {row.number : row \in r.rows}
         IN /\ \A row \in r.new : participant[row.number] = None
            /\ participant'[p] =
                 IF p \notin numbers THEN participant[p]
                 ELSE IF RowOf(p) \in r.new
                 THEN [site |-> SiteIn(RowOf(p), None), active |-> TRUE, password |-> r.secret[p]]
                 ELSE IF r.update /\ participant[p] # None
                 THEN Imported(participant[p], RowOf(p), r.secret) ELSE participant[p]
  PROVE  /\ participant'[p] \in PersonRow \cup {None}
         /\ participant[p] # None => participant'[p] # None
         /\ p \in DOMAIN admin[c].secret /\ participant'[p] # None =>
              /\ participant'[p].password \in 1..passwords
              /\ participant'[p].password = admin[c].secret[p] \/ p \in doubtful
         /\ p \notin DOMAIN admin[c].secret /\ participant'[p] # None =>
              participant[p] # None /\ participant'[p].password = participant[p].password
<1> DEFINE r == admin[c]
           numbers == {row.number : row \in r.rows}
           row == CHOOSE x \in r.rows : x.number = p
<1>0. participant[p] \in PersonRow \cup {None} /\ passwords \in Nat
  BY DEF RosterInv, RosterTyped
<1>1. ImportOK(r) /\ SecretOK(r)
  BY DEF RosterInv, AdminOK
<1>2. /\ \A x \in DOMAIN r.secret : r.secret[x] \in 1..passwords
      /\ \A x, y \in r.rows : x.number = y.number => x = y
      /\ \A x \in r.new : x.number \in DOMAIN r.secret
      /\ p \in DOMAIN r.secret => p \in numbers /\ (r.update \/ p \in doubtful \/ \E x \in r.new : x.number = p)
  BY <1>1 DEF ImportOK, SecretOK, Handing
<1>3. r.new \subseteq r.rows /\ \A x \in r.rows : SiteIn(x, None) \in Site \cup {None}
  BY <1>1 DEF ImportOK
<1>4. p \in DOMAIN r.secret => r.secret[p] \in Nat
  BY <1>0, <1>2
<1>5. CASE p \notin numbers
  BY <1>0, <1>2, <1>4, <1>5
<1>6. CASE p \in numbers
  <2>1. row \in r.rows /\ row.number = p
    BY <1>6
  <2>2. (\E x \in r.new : x.number = p) => row \in r.new
    BY <1>2, <1>3, <2>1
  <2>3. SiteIn(row, None) \in Site \cup {None}
    BY <1>3, <2>1
  <2>4. CASE row \in r.new
    <3>1. p \in DOMAIN r.secret /\ r.secret[p] \in 1..passwords
      BY <1>2, <1>4, <2>1, <2>4
    <3>2. participant'[p] = [site |-> SiteIn(row, None), active |-> TRUE, password |-> r.secret[p]]
      BY <1>6, <2>4
    <3>3. participant'[p] \in PersonRow /\ participant'[p].password = r.secret[p]
      BY <1>4, <2>3, <3>1, <3>2, NewPerson
    <3>4. QED
      BY <3>1, <3>3, RosterAssumption
  <2>5. CASE row \notin r.new /\ r.update /\ participant[p] # None
    <3> DEFINE old == participant[p]
    <3>1. participant'[p] = Imported(old, row, r.secret)
      BY <1>6, <2>5
    <3>2. old \in PersonRow /\ old.site \in Site \cup {None} /\ old.password \in Nat
      BY <1>0, <2>5 DEF PersonRow
    <3>3. SiteIn(row, old.site) \in Site \cup {None}
      BY <2>3, <3>2 DEF SiteIn
    <3>4. CASE p \in DOMAIN r.secret
      <4>1. participant'[p] = [old EXCEPT !.site = SiteIn(row, old.site), !.password = r.secret[p]]
        BY <2>1, <3>1, <3>4 DEF Imported
      <4>2. participant'[p] \in PersonRow /\ participant'[p].password = r.secret[p]
        <5> DEFINE site == SiteIn(row, old.site)
                   password == r.secret[p]
        <5>1. old \in PersonRow /\ site \in Site \cup {None} /\ password \in Nat
          BY <1>4, <3>2, <3>3, <3>4
        <5> HIDE DEF old, site, password
        <5>2. /\ [old EXCEPT !.site = site, !.password = password] \in PersonRow
              /\ [old EXCEPT !.site = site, !.password = password].password = password
          BY <5>1, PersonUpdated
        <5>3. QED
          BY <4>1, <5>2 DEF old, site, password
      <4>3. QED
        BY <1>2, <1>4, <3>4, <4>2, RosterAssumption
    <3>5. CASE p \notin DOMAIN r.secret
      <4>1. participant'[p] = [old EXCEPT !.site = SiteIn(row, old.site), !.password = old.password]
        BY <2>1, <3>1, <3>5 DEF Imported
      <4>2. participant'[p] \in PersonRow /\ participant'[p].password = old.password
        <5> DEFINE site == SiteIn(row, old.site)
                   password == old.password
        <5>1. old \in PersonRow /\ site \in Site \cup {None} /\ password \in Nat
          BY <3>2, <3>3
        <5> HIDE DEF old, site, password
        <5>2. /\ [old EXCEPT !.site = site, !.password = password] \in PersonRow
              /\ [old EXCEPT !.site = site, !.password = password].password = password
          BY <5>1, PersonUpdated
        <5>3. QED
          BY <4>1, <5>2 DEF old, site, password
      <4>3. QED
        BY <1>4, <2>5, <3>5, <4>2, RosterAssumption
    <3>6. QED
      BY <3>4, <3>5
  <2>6. CASE row \notin r.new /\ ~(r.update /\ participant[p] # None)
    <3>1. participant'[p] = participant[p]
      BY <1>6, <2>6
    <3>2. p \in DOMAIN r.secret => p \in doubtful \/ participant[p] = None
      BY <1>2, <2>2, <2>6
    <3>3. participant[p] # None => participant[p].password \in 1..passwords
      BY DEF RosterInv, PasswordsKnown
    <3>4. QED
      BY <1>0, <1>4, <3>1, <3>2, <3>3
  <2>7. QED
    BY <2>4, <2>5, <2>6
<1>7. QED
  BY <1>5, <1>6

\* POST and PATCH commit a password and have the answer left.
LEMMA PasswordSet ==
  ASSUME RosterInv, NEW c \in Admin, NEW x \in Participant, NEW row \in PersonRow,
         row.password = passwords + 1, admin[c].op = "idle", passwords' = passwords + 1,
         participant' = [participant EXCEPT ![x] = row], card' = card,
         Busy(c, Telling({}, [y \in {x} |-> passwords'])), doubtful' = Doubts(c, {x})
  PROVE  Begun(c)
<1> DEFINE secret == [y \in {x} |-> passwords']
<1>0. /\ DOMAIN admin = Admin /\ doubtful \subseteq Participant /\ passwords \in Nat
      /\ participant \in [Participant -> PersonRow \cup {None}]
  BY DEF RosterInv, RosterTyped
<1>1. DOMAIN secret = {x} /\ secret[x] = passwords + 1
  OBVIOUS
<1> HIDE DEF secret
<1>2. admin' = [admin EXCEPT ![c] = Telling({}, secret)]
  BY DEF Busy, secret
<1>3. admin'[c] = Telling({}, secret) /\ \A d \in Admin \ {c} : admin'[d] = admin[d]
  BY <1>0, <1>2
<1>4. /\ DOMAIN admin'[c] = {"op", "todo", "secret"} /\ admin'[c].op = "tell"
      /\ admin'[c].todo = {} /\ admin'[c].secret = secret
  BY <1>3, TellingIs
<1>5. participant'[x] = row /\ \A p \in Participant \ {x} : participant'[p] = participant[p]
  BY <1>0
<1>6. /\ doubtful' \subseteq Participant /\ doubtful \ {x} \subseteq doubtful'
      /\ {x} \cap Handled(c) \subseteq doubtful'
  BY <1>0 DEF Doubts
<1>7. (ImportOK(admin[c]) /\ TellOK(admin[c]) /\ OtherOK(admin[c]))'
  BY <1>1, <1>4, <1>5 DEF ImportOK, TellOK, OtherOK
<1>8. QED
  BY <1>0, <1>1, <1>3, <1>4, <1>5, <1>6, <1>7 DEF Begun

\* A new request has passwords that are new, for participants; those that another request
\* has as well become doubtful.
LEMMA RequestBegins ==
  ASSUME RosterInv, BeginImport \/ BeginReset \/ CreateParticipant \/ (PatchParticipant /\ passwords' # passwords)
  PROVE  \E c \in Admin : Begun(c)
<1>0. /\ DOMAIN admin = Admin /\ doubtful \subseteq Participant /\ passwords \in Nat
      /\ participant \in [Participant -> PersonRow \cup {None}]
  BY DEF RosterInv, RosterTyped
<1>1. CASE BeginReset
  <2> PICK c \in Admin, chosen \in SUBSET Existing(participant) :
        /\ At(admin, c, "idle")
        /\ Busy(c, Telling(chosen, [p \in chosen |-> passwords + 1]))
        /\ passwords' = passwords + 1
        /\ doubtful' = Doubts(c, chosen)
        /\ UNCHANGED <<participant, card, sessions>>
    BY <1>1 DEF BeginReset
  <2> DEFINE secret == [p \in chosen |-> passwords + 1]
  <2>1. DOMAIN secret = chosen /\ \A p \in chosen : secret[p] = passwords + 1
    OBVIOUS
  <2> HIDE DEF secret
  <2>2. admin' = [admin EXCEPT ![c] = Telling(chosen, secret)]
    BY DEF Busy, secret
  <2>3. admin'[c] = Telling(chosen, secret) /\ \A d \in Admin \ {c} : admin'[d] = admin[d]
    BY <1>0, <2>2
  <2>4. /\ DOMAIN admin'[c] = {"op", "todo", "secret"} /\ admin'[c].op = "tell"
        /\ admin'[c].todo = chosen /\ admin'[c].secret = secret
    BY <2>3, TellingIs
  <2>5. chosen \subseteq Participant
    BY <1>0 DEF Existing
  <2>6. /\ doubtful' \subseteq Participant /\ doubtful \ chosen \subseteq doubtful'
        /\ chosen \cap Handled(c) \subseteq doubtful'
    BY <1>0, <2>5 DEF Doubts
  <2>7. (ImportOK(admin[c]) /\ TellOK(admin[c]) /\ OtherOK(admin[c]))'
    BY <2>1, <2>4 DEF ImportOK, TellOK, OtherOK
  <2>8. QED
    BY <2>1, <2>3, <2>4, <2>5, <2>6, <2>7 DEF Begun, At
<1>2. CASE BeginImport
  <2> DEFINE given(rows) == {row.number : row \in {x \in rows : x.given \/ participant[x.number] = None}}
             fresh(rows) == {row \in rows : participant[row.number] = None}
  <2> PICK c \in Admin, rows \in SUBSET ImportRow, update \in BOOLEAN :
        /\ At(admin, c, "idle")
        /\ \A x, y \in rows : x.number = y.number => x = y
        /\ \A row \in rows : SiteIn(row, None) \in Site \cup {None}
        /\ Busy(c, [op |-> "import", rows |-> rows, new |-> fresh(rows), update |-> update,
                    secret |-> [p \in given(rows) |-> passwords + 1]])
        /\ doubtful' = doubtful \cup (given(rows) \cap Handled(c))
                       \cup (IF update THEN {} ELSE given(rows) \cap Existing(participant))
        /\ passwords' = passwords + 1
        /\ UNCHANGED <<participant, card, sessions>>
    BY <1>2 DEF BeginImport
  <2> DEFINE named == given(rows)
             new == fresh(rows)
             left == IF update THEN {} ELSE named \cap Existing(participant)
             r == [op |-> "import", rows |-> rows, new |-> new, update |-> update,
                   secret |-> [p \in named |-> passwords + 1]]
  <2>1. admin'[c] = r
    BY <1>0 DEF Busy
  <2>2. named \subseteq Participant
    BY RosterAssumption
  <2>3. \A d \in Admin \ {c} : admin'[d] = admin[d]
    BY <1>0 DEF Busy
  <2>4. doubtful' = doubtful \cup (named \cap Handled(c)) \cup left
    OBVIOUS
  <2>5. \A p \in named : /\ \E row \in rows : row.number = p
                         /\ update \/ p \in left \/ \E row \in new : row.number = p
    BY <1>0, <2>2 DEF Existing
  <2>6. new \subseteq rows /\ \A row \in new : row.number \in named
    OBVIOUS
  <2>7. left \subseteq named
    OBVIOUS
  <2> HIDE DEF named, new, left
  <2>8. /\ r.op = "import" /\ r.rows = rows /\ r.new = new /\ r.update = update
        /\ DOMAIN r.secret = named /\ \A p \in named : r.secret[p] = passwords + 1
    OBVIOUS
  <2> HIDE DEF r
  <2>9. (ImportOK(admin[c]))'
    <3>1. \A p \in named : update \/ p \in doubtful' \/ \E row \in new : row.number = p
      BY <2>4, <2>5
    <3>2. \A p \in named : \E row \in rows : row.number = p
      BY <2>5
    <3>3. /\ rows \subseteq ImportRow /\ \A x, y \in rows : x.number = y.number => x = y
          /\ \A row \in rows : SiteIn(row, None) \in Site \cup {None}
      OBVIOUS
    <3>4. QED
      BY <2>1, <2>6, <2>8, <3>1, <3>2, <3>3 DEF ImportOK
  <2>10. (TellOK(admin[c]) /\ OtherOK(admin[c]))'
    BY <2>1, <2>8 DEF TellOK, OtherOK
  <2>11. doubtful' \subseteq Participant /\ named \cap Handled(c) \subseteq doubtful'
    BY <1>0, <2>2, <2>4, <2>7
  <2>12. admin[c].op = "idle" /\ UNCHANGED <<participant, card>> /\ passwords' = passwords + 1
    BY DEF At
  <2>13. QED
    BY <2>1, <2>2, <2>3, <2>4, <2>8, <2>9, <2>10, <2>11, <2>12 DEF Begun
<1>3. CASE CreateParticipant
  <2>1. PICK c \in Admin, x \in Participant \ Existing(participant), site \in Site \cup {None} :
          /\ At(admin, c, "idle")
          /\ passwords' = passwords + 1
          /\ participant' = [participant EXCEPT ![x] = [site |-> site, active |-> TRUE, password |-> passwords']]
          /\ Busy(c, Telling({}, [y \in {x} |-> passwords']))
          /\ doubtful' = Doubts(c, {x})
          /\ UNCHANGED <<card, sessions>>
    BY <1>3 DEF CreateParticipant
  <2> DEFINE row == [site |-> site, active |-> TRUE, password |-> passwords']
  <2>2. row \in PersonRow /\ row.password = passwords + 1
    BY <1>0, <2>1, NewPerson
  <2>3. participant' = [participant EXCEPT ![x] = row]
    BY <2>1
  <2> HIDE DEF row
  <2>4. QED
    BY <2>1, <2>2, <2>3, PasswordSet DEF At
<1>4. CASE PatchParticipant /\ passwords' # passwords
  <2>1. PICK x \in Existing(participant), c \in Admin :
          /\ At(admin, c, "idle")
          /\ passwords' = passwords + 1
          /\ participant' = [participant EXCEPT ![x].password = passwords']
          /\ Busy(c, Telling({}, [y \in {x} |-> passwords']))
          /\ doubtful' = Doubts(c, {x})
          /\ UNCHANGED <<card, sessions>>
    BY <1>4 DEF PatchParticipant
  <2>2. participant[x] \in PersonRow /\ x \in Participant
    BY <1>0, RowsExist
  <2> DEFINE row == [participant[x] EXCEPT !.password = passwords']
  <2>3. row \in PersonRow /\ row.password = passwords + 1
    <3> DEFINE old == participant[x]
               password == passwords'
    <3>1. old \in PersonRow /\ password \in Nat
      BY <1>0, <2>1, <2>2
    <3> HIDE DEF old, password
    <3>2. /\ [old EXCEPT !.password = password] \in PersonRow
          /\ [old EXCEPT !.password = password].password = password
      BY <3>1, PersonReset
    <3>3. QED
      BY <2>1, <3>2 DEF old, password
  <2>4. participant' = [participant EXCEPT ![x] = row]
    BY <1>0, <2>1, <2>2
  <2> HIDE DEF row
  <2>5. QED
    BY <2>1, <2>2, <2>3, <2>4, PasswordSet DEF At
<1>5. QED
  BY <1>1, <1>2, <1>3, <1>4

\* What ResetOne does to the password of the participant it resets.
LEMMA ResetWrites ==
  ASSUME RosterInv, NEW c \in Admin, admin[c].op \in {"tell", "stray"}, NEW x \in admin[c].todo,
         admin' = [admin EXCEPT ![c].todo = @ \ {x}],
         participant' = [participant EXCEPT ![x] =
           IF @ = None THEN None ELSE [@ EXCEPT !.password = admin[c].secret[x]]]
  PROVE  /\ x \in Participant /\ x \in DOMAIN admin[c].secret /\ admin[c].secret[x] \in Nat
         /\ participant'[x] \in PersonRow \cup {None}
         /\ participant[x] # None => participant'[x] \in PersonRow
         /\ participant'[x] # None => participant'[x].password = admin[c].secret[x]
         /\ \A p \in Participant \ {x} : participant'[p] = participant[p]
         /\ participant' = [p \in Participant |-> participant'[p]]
         /\ DOMAIN admin'[c] = {"op", "todo", "secret"} /\ admin'[c].todo = admin[c].todo \ {x}
         /\ admin'[c].op = admin[c].op /\ admin'[c].secret = admin[c].secret
         /\ \A d \in Admin \ {c} : admin'[d] = admin[d]
<1>0. /\ DOMAIN admin = Admin /\ participant \in [Participant -> PersonRow \cup {None}]
      /\ SecretOK(admin[c]) /\ TellOK(admin[c])
  BY DEF RosterInv, RosterTyped, AdminOK
<1>1. DOMAIN admin[c] = {"op", "todo", "secret"} /\ x \in DOMAIN admin[c].secret
  BY <1>0 DEF TellOK
<1>2. x \in Participant /\ admin[c].secret[x] \in Nat
  BY <1>0, <1>1 DEF SecretOK, Handing
<1>3. /\ DOMAIN admin'[c] = {"op", "todo", "secret"} /\ admin'[c].todo = admin[c].todo \ {x}
      /\ admin'[c].op = admin[c].op /\ admin'[c].secret = admin[c].secret
      /\ \A d \in Admin \ {c} : admin'[d] = admin[d]
  <2>1. admin'[c] = [admin[c] EXCEPT !.todo = admin[c].todo \ {x}]
    BY <1>0
  <2>2. \A d \in Admin \ {c} : admin'[d] = admin[d]
    BY <1>0
  <2>3. QED
    BY <1>1, <2>1, <2>2, TodoReduced
<1>4. /\ \A p \in Participant \ {x} : participant'[p] = participant[p]
      /\ participant' = [p \in Participant |-> participant'[p]]
      /\ participant'[x] = IF participant[x] = None THEN None
                           ELSE [participant[x] EXCEPT !.password = admin[c].secret[x]]
  BY <1>0, <1>2
<1> DEFINE old == participant[x]
           password == admin[c].secret[x]
<1>5. ASSUME old # None
      PROVE  /\ [old EXCEPT !.password = password] \in PersonRow
             /\ [old EXCEPT !.password = password].password = password
  <2>1. old \in PersonRow /\ password \in Nat
    BY <1>0, <1>2, <1>5
  <2> HIDE DEF old, password
  <2>2. QED
    BY <2>1, PersonReset
<1>6. QED
  BY <1>1, <1>2, <1>3, <1>4, <1>5

\* What the actions about participants do to the requests that have passwords.
LEMMA RequestsMove ==
  ASSUME RosterInv, ParticipantNext \/ AdminDies \/ UNCHANGED rosterVars
  PROVE  \/ \E c \in Admin : Begun(c)
         \/ \E c \in Admin : Moved(c) /\ passwords' = passwords
         \/ UNCHANGED <<doubtful, passwords, admin>>
<1>0. /\ DOMAIN admin = Admin /\ doubtful \subseteq Participant
      /\ \A c \in Admin : SecretOK(admin[c]) /\ TellOK(admin[c])
  BY DEF RosterInv, RosterTyped, AdminOK
<1>1. CASE UNCHANGED rosterVars
  BY <1>1 DEF rosterVars, people
<1>2. CASE BeginImport \/ BeginReset \/ CreateParticipant \/ (PatchParticipant /\ passwords' # passwords)
  BY <1>2, RequestBegins
<1>3. CASE PatchParticipant /\ passwords' = passwords
  <2>1. passwords \in Nat
    BY DEF RosterInv, RosterTyped
  <2>2. UNCHANGED <<doubtful, passwords, admin>>
    BY <1>3, <2>1 DEF PatchParticipant
  <2>3. QED
    BY <2>2
<1>4. CASE DeleteParticipant
  BY <1>4 DEF DeleteParticipant
<1>5. CASE CommitImport
  <2> PICK c \in Admin :
        /\ At(admin, c, "import")
        /\ Ended(c) \/ Busy(c, Telling({}, admin[c].secret))
        /\ UNCHANGED <<passwords, card, doubtful, sessions>>
    BY <1>5 DEF CommitImport
  <2>1. \A d \in Admin \ {c} : admin'[d] = admin[d]
    BY <1>0 DEF Ended, Busy
  <2>2. CASE Ended(c)
    <3>1. admin'[c] = Idle
      BY <1>0, <2>2 DEF Ended
    <3>2. QED
      BY <1>0, <2>1, <3>1 DEF Moved
  <2>3. CASE Busy(c, Telling({}, admin[c].secret))
    <3>1. admin'[c] = Telling({}, admin[c].secret)
      BY <1>0, <2>3 DEF Busy
    <3>2. DOMAIN admin'[c] = {"op", "todo", "secret"} /\ admin'[c].op = "tell" /\ admin'[c].secret = admin[c].secret
      BY <3>1, TellingIs
    <3>3. QED
      BY <1>0, <2>1, <3>2 DEF Moved, At, Handing
  <2>4. QED
    BY <2>2, <2>3
<1>6. CASE ResetOne
  <2> PICK c \in Admin :
        /\ At(admin, c, "tell") \/ At(admin, c, "stray")
        /\ \E x \in admin[c].todo :
             /\ admin' = [admin EXCEPT ![c].todo = @ \ {x}]
             /\ participant' = [participant EXCEPT ![x] =
                  IF @ = None THEN None ELSE [@ EXCEPT !.password = admin[c].secret[x]]]
        /\ UNCHANGED <<passwords, card, doubtful, sessions>>
    BY <1>6 DEF ResetOne
  <2>1. admin[c].op \in {"tell", "stray"}
    BY DEF At
  <2>2. /\ \A d \in Admin \ {c} : admin'[d] = admin[d]
        /\ DOMAIN admin'[c] = {"op", "todo", "secret"}
        /\ admin'[c].op = admin[c].op /\ admin'[c].secret = admin[c].secret
    BY <2>1, ResetWrites
  <2>3. QED
    BY <1>0, <2>1, <2>2 DEF Moved, Handing
<1>7. CASE ResetFails
  <2> PICK c \in Admin :
        /\ At(admin, c, "tell")
        /\ \E p \in admin[c].todo : Busy(c, [Telling(admin[c].todo \ {p}, admin[c].secret) EXCEPT !.op = "stray"])
        /\ doubtful' = doubtful \cup DOMAIN admin[c].secret
        /\ UNCHANGED <<participant, passwords, card, sessions>>
    BY <1>7 DEF ResetFails
  <2>1. PICK p \in admin[c].todo : Busy(c, [Telling(admin[c].todo \ {p}, admin[c].secret) EXCEPT !.op = "stray"])
    OBVIOUS
  <2>2. admin'[c] = [Telling(admin[c].todo \ {p}, admin[c].secret) EXCEPT !.op = "stray"]
    BY <1>0, <2>1 DEF Busy
  <2>3. DOMAIN admin'[c] = {"op", "todo", "secret"} /\ admin'[c].op = "stray" /\ admin'[c].secret = admin[c].secret
    BY <2>2, TellingIs
  <2>4. \A d \in Admin \ {c} : admin'[d] = admin[d]
    BY <1>0, <2>1 DEF Busy
  <2>5. doubtful \subseteq doubtful' /\ doubtful' \subseteq Participant
    BY <1>0 DEF SecretOK, At, Handing
  <2>6. QED
    BY <2>3, <2>4, <2>5 DEF Moved, At, Handing
<1>8. CASE Answer
  <2> PICK c \in Admin : Ended(c) /\ UNCHANGED <<participant, passwords, doubtful, sessions>>
    BY <1>8 DEF Answer
  <2>1. admin'[c] = Idle /\ \A d \in Admin \ {c} : admin'[d] = admin[d]
    BY <1>0 DEF Ended
  <2>2. QED
    BY <1>0, <2>1 DEF Moved
<1>9. CASE AdminDies
  <2> PICK c \in Admin :
        /\ doubtful' = doubtful \cup (IF At(admin, c, "tell") THEN DOMAIN admin[c].secret ELSE {})
        /\ Ended(c)
        /\ UNCHANGED <<participant, passwords, card, sessions>>
    BY <1>9 DEF AdminDies
  <2>1. doubtful \subseteq doubtful' /\ doubtful' \subseteq Participant
    BY <1>0 DEF SecretOK, At, Handing
  <2>2. admin'[c] = Idle /\ \A d \in Admin \ {c} : admin'[d] = admin[d]
    BY <1>0 DEF Ended
  <2>3. QED
    BY <2>1, <2>2 DEF Moved
<1>10. QED
  BY <1>1, <1>2, <1>3, <1>4, <1>5, <1>6, <1>7, <1>8, <1>9 DEF ParticipantNext

\* What one step may do to the requests that have passwords.
LEMMA RequestsStep ==
  ASSUME RosterInv, [RosterNext]_rosterVars
  PROVE  \/ \E c \in Admin : Begun(c)
         \/ \E c \in Admin : Moved(c) /\ passwords' = passwords
         \/ /\ UNCHANGED <<doubtful, passwords>>
            /\ \A c \in Admin : \/ admin'[c] = admin[c]
                                \/ admin[c].op \notin Handing /\ admin'[c].op \notin Handing
<1>1. CASE ScheduleNext
  BY <1>1, ScheduleFrame DEF people
<1>2. CASE ParticipantNext \/ AdminDies \/ UNCHANGED rosterVars
  BY <1>2, RequestsMove
<1>3. QED
  BY <1>1, <1>2 DEF RosterNext

LEMMA PersonStepHolds ==
  ASSUME RosterInv, [RosterNext]_rosterVars, NEW p \in Participant
  PROVE  PersonStep(p)
<1>0. /\ participant \in [Participant -> PersonRow \cup {None}] /\ DOMAIN admin = Admin
      /\ DOMAIN card = Participant /\ passwords \in Nat
  BY DEF RosterInv, RosterTyped
<1>1. ASSUME participant'[p] = participant[p], card'[p] = card[p], doubtful \subseteq doubtful',
             \A c \in Admin : Tells(c, p) => admin'[c] = admin[c] \/ Tells(c, p)' \/ p \in doubtful'
      PROVE  PersonStep(p)
  BY <1>1 DEF PersonStep, LeftAlone, Tells
<1>2. CASE UNCHANGED rosterVars
  BY <1>1, <1>2 DEF rosterVars, people
<1>3. CASE ScheduleNext
  BY <1>1, <1>3, ScheduleFrame DEF people, Tells, Handing
<1>4. CASE BeginImport \/ BeginReset \/ CreateParticipant \/ (PatchParticipant /\ passwords' # passwords)
  <2>1. PICK c \in Admin : Begun(c)
    BY <1>4, RequestBegins
  <2>2. /\ admin[c].op = "idle" /\ \A d \in Admin \ {c} : admin'[d] = admin[d]
        /\ admin'[c].op \in {"import", "tell"}
        /\ passwords' = passwords + 1 /\ card' = card
        /\ p \notin DOMAIN admin'[c].secret => participant'[p] = participant[p]
        /\ participant'[p] = participant[p] \/ participant'[p].password = passwords + 1
        /\ admin'[c].op = "import" => participant' = participant /\ doubtful \subseteq doubtful'
        /\ doubtful \ DOMAIN admin'[c].secret \subseteq doubtful'
        /\ DOMAIN admin'[c].secret \cap Handled(c) \subseteq doubtful'
    BY <2>1 DEF Begun
  <2>3. \A d \in Admin : Tells(d, p) => Tells(d, p)'
    BY <2>2 DEF Tells
  <2>4. CASE admin'[c].op = "import" \/ p \notin DOMAIN admin'[c].secret
    BY <2>2, <2>3, <2>4 DEF PersonStep, LeftAlone
  <2>5. CASE admin'[c].op = "tell" /\ p \in DOMAIN admin'[c].secret
    <3>1. \A d \in Admin : Hands(d, p) => p \in doubtful'
      BY <2>2, <2>5, HandledBy DEF Hands, Handing
    <3>2. QED
      BY <2>2, <2>5, <3>1 DEF PersonStep, Tells
  <2>6. QED
    BY <2>2, <2>4, <2>5
<1>5. CASE PatchParticipant /\ passwords' = passwords
  <2> PICK x \in Existing(participant), active \in BOOLEAN, site \in Site \cup {None} :
        /\ participant' = [participant EXCEPT ![x].active = active, ![x].site = site]
        /\ UNCHANGED <<passwords, card, doubtful, sessions, admin>>
    BY <1>0, <1>5, PatchWithoutPassword
  <2>0. participant[x] \in PersonRow /\ participant[x] # None /\ x \in Participant
    BY <1>0, RowsExist
  <2>1. CASE x # p
    BY <1>0, <1>1, <2>1
  <2>2. CASE x = p
    <3>1. participant'[p] = [participant[x] EXCEPT !.active = active, !.site = site]
      BY <1>0, <2>2
    <3>2. participant'[p].password = participant[p].password
      BY <1>0, <2>0, <2>2, <3>1, PersonMoved DEF PersonRow
    <3>3. QED
      BY <2>0, <2>2, <3>2 DEF PersonStep, LeftAlone, Tells
  <2>3. QED
    BY <2>1, <2>2
<1>6. CASE DeleteParticipant
  <2> PICK x \in Existing(participant) :
        /\ participant' = [participant EXCEPT ![x] = None]
        /\ UNCHANGED <<passwords, card, doubtful, schedule, attempt, shut, admin>>
    BY <1>6 DEF DeleteParticipant
  <2>1. CASE x # p
    BY <1>0, <1>1, <2>1
  <2>2. CASE x = p
    BY <1>0, <2>2 DEF PersonStep, LeftAlone, Tells
  <2>3. QED
    BY <2>1, <2>2
<1>7. CASE CommitImport
  <2> PICK c \in Admin :
        /\ At(admin, c, "import")
        /\ LET r == admin[c]
               RowOf(x) == CHOOSE row \in r.rows : row.number = x
               numbers == {row.number : row \in r.rows}
               taken == \E row \in r.new : participant[row.number] # None
           IN IF taken THEN Ended(c) /\ UNCHANGED participant
              ELSE /\ participant' = [x \in Participant |->
                         IF x \notin numbers THEN participant[x]
                         ELSE IF RowOf(x) \in r.new
                         THEN [site |-> SiteIn(RowOf(x), None), active |-> TRUE, password |-> r.secret[x]]
                         ELSE IF r.update /\ participant[x] # None
                         THEN Imported(participant[x], RowOf(x), r.secret) ELSE participant[x]]
                   /\ Busy(c, Telling({}, r.secret))
        /\ UNCHANGED <<passwords, card, doubtful, sessions>>
    BY <1>7 DEF CommitImport
  <2>0. admin[c].op = "import" /\ \A d \in Admin \ {c} : admin'[d] = admin[d]
    BY <1>0 DEF At, Ended, Busy
  <2>1. \A d \in Admin : Tells(d, p) => admin'[d] = admin[d]
    BY <2>0 DEF Tells
  <2>2. CASE \E row \in admin[c].new : participant[row.number] # None
    BY <1>1, <2>1, <2>2
  <2>3. CASE \A row \in admin[c].new : participant[row.number] = None
    <3>0. admin'[c] = Telling({}, admin[c].secret)
      BY <1>0, <2>3 DEF Busy
    <3>1. p \in DOMAIN admin[c].secret /\ participant'[p] # None => participant'[p].password \in 1..passwords
      BY <2>0, <2>3, ImportedPerson
    <3>2. p \notin DOMAIN admin[c].secret /\ participant'[p] # None =>
            participant[p] # None /\ participant'[p].password = participant[p].password
      BY <2>0, <2>3, ImportedPerson
    <3>3. CASE p \in DOMAIN admin[c].secret
      <4>1. Tells(c, p)' /\ Hands(c, p)
        BY <2>0, <3>0, <3>3, TellingIs DEF Tells, Hands, Handing
      <4>2. QED
        BY <2>0, <3>1, <3>3, <4>1 DEF PersonStep
    <3>4. CASE p \notin DOMAIN admin[c].secret
      BY <2>1, <3>2, <3>4 DEF PersonStep, LeftAlone, Tells
    <3>5. QED
      BY <3>3, <3>4
  <2>4. QED
    BY <2>2, <2>3
<1>8. CASE ResetOne
  <2> PICK c \in Admin :
        /\ At(admin, c, "tell") \/ At(admin, c, "stray")
        /\ \E x \in admin[c].todo :
             /\ admin' = [admin EXCEPT ![c].todo = @ \ {x}]
             /\ participant' = [participant EXCEPT ![x] =
                  IF @ = None THEN None ELSE [@ EXCEPT !.password = admin[c].secret[x]]]
        /\ UNCHANGED <<passwords, card, doubtful, sessions>>
    BY <1>8 DEF ResetOne
  <2> PICK x \in admin[c].todo :
        /\ admin' = [admin EXCEPT ![c].todo = @ \ {x}]
        /\ participant' = [participant EXCEPT ![x] =
             IF @ = None THEN None ELSE [@ EXCEPT !.password = admin[c].secret[x]]]
    OBVIOUS
  <2>0. admin[c].op \in {"tell", "stray"}
    BY DEF At
  <2>1. /\ x \in DOMAIN admin[c].secret
        /\ participant'[x] # None => participant'[x].password = admin[c].secret[x]
        /\ \A y \in Participant \ {x} : participant'[y] = participant[y]
        /\ admin'[c].op = admin[c].op /\ admin'[c].secret = admin[c].secret
        /\ \A d \in Admin \ {c} : admin'[d] = admin[d]
    BY <2>0, ResetWrites
  <2>2. \A d \in Admin : Tells(d, p) => Tells(d, p)'
    BY <2>1 DEF Tells
  <2>3. CASE x # p
    BY <1>0, <1>1, <2>1, <2>2, <2>3
  <2>4. CASE x = p
    <3>1. Hands(c, p) /\ Hands(c, p)'
      BY <2>0, <2>1, <2>4 DEF Hands, Handing
    <3>2. QED
      BY <2>0, <2>1, <2>4, <3>1 DEF PersonStep
  <2>5. QED
    BY <2>3, <2>4
<1>9. CASE ResetFails
  <2> PICK c \in Admin :
        /\ At(admin, c, "tell")
        /\ \E x \in admin[c].todo : Busy(c, [Telling(admin[c].todo \ {x}, admin[c].secret) EXCEPT !.op = "stray"])
        /\ doubtful' = doubtful \cup DOMAIN admin[c].secret
        /\ UNCHANGED <<participant, passwords, card, sessions>>
    BY <1>9 DEF ResetFails
  <2>1. \A d \in Admin \ {c} : admin'[d] = admin[d]
    BY <1>0 DEF Busy
  <2>2. Tells(c, p) => p \in doubtful'
    BY DEF Tells
  <2>3. QED
    BY <1>1, <2>1, <2>2
<1>10. CASE Answer
  <2> PICK c \in Admin :
        /\ At(admin, c, "tell") /\ admin[c].todo = {}
        /\ card' = Over(admin[c].secret, card)
        /\ Ended(c)
        /\ UNCHANGED <<participant, passwords, doubtful, sessions>>
    BY <1>10 DEF Answer
  <2>1. admin'[c] = Idle /\ \A d \in Admin \ {c} : admin'[d] = admin[d]
    BY <1>0 DEF Ended
  <2>2. CASE p \in DOMAIN admin[c].secret
    <3>1. card'[p] = admin[c].secret[p]
      BY <2>2 DEF Over
    <3>2. QED
      BY <2>1, <2>2, <3>1 DEF PersonStep, Tells, At
  <2>3. CASE p \notin DOMAIN admin[c].secret
    <3>1. card'[p] = card[p]
      BY <1>0, <2>3 DEF Over
    <3>2. QED
      BY <1>1, <2>1, <2>3, <3>1 DEF Tells
  <2>4. QED
    BY <2>2, <2>3
<1>11. CASE AdminDies
  <2> PICK c \in Admin :
        /\ doubtful' = doubtful \cup (IF At(admin, c, "tell") THEN DOMAIN admin[c].secret ELSE {})
        /\ Ended(c)
        /\ UNCHANGED <<participant, passwords, card, sessions>>
    BY <1>11 DEF AdminDies
  <2>1. \A d \in Admin \ {c} : admin'[d] = admin[d]
    BY <1>0 DEF Ended
  <2>2. Tells(c, p) => p \in doubtful'
    BY DEF Tells, At
  <2>3. QED
    BY <1>1, <2>1, <2>2
<1>12. QED
  BY <1>2, <1>3, <1>4, <1>5, <1>6, <1>7, <1>8, <1>9, <1>10, <1>11 DEF RosterNext, ParticipantNext

\* What the actions about participants leave of schedules, enrolments and attempts.
LEMMA ParticipantFrame ==
  ASSUME RosterInv, ParticipantNext \/ AdminDies \/ UNCHANGED rosterVars
  PROVE  /\ UNCHANGED <<schedule, attempt, shut>> /\ enrolled' \subseteq enrolled
         /\ \A c \in Admin : admin'[c] = admin[c] \/ admin'[c].op \in {"idle"} \cup Handing
<1>1. UNCHANGED <<schedule, attempt, shut>> /\ enrolled' \subseteq enrolled
  BY DEF ParticipantNext, AdminDies, CreateParticipant, PatchParticipant, DeleteParticipant, BeginImport,
         CommitImport, BeginReset, ResetOne, ResetFails, Answer, rosterVars, sessions
<1>2. CASE \E c \in Admin : Begun(c)
  BY <1>1, <1>2 DEF Begun, Handing
<1>3. CASE \E c \in Admin : Moved(c)
  BY <1>1, <1>3 DEF Moved, Handing, Idle
<1>4. QED
  BY <1>1, <1>2, <1>3, RequestsMove

\* Rows of participants keep their type, and only a DELETE takes one away: of a participant
\* without attempts, with all enrolments.
LEMMA PeopleTyped ==
  ASSUME RosterInv, [RosterNext]_rosterVars
  PROVE  /\ participant' \in [Participant -> PersonRow \cup {None}]
         /\ DOMAIN card' = Participant /\ passwords' \in Nat
         /\ \A p \in Participant :
              \/ participant[p] # None => participant'[p] # None
              \/ \A s \in Schedule : <<s, p>> \notin enrolled' \cup attempt'
<1>0. /\ participant \in [Participant -> PersonRow \cup {None}] /\ DOMAIN admin = Admin
      /\ DOMAIN card = Participant /\ passwords \in Nat
      /\ \A c \in Admin : SecretOK(admin[c])
  BY DEF RosterInv, RosterTyped, AdminOK
<1>1. CASE UNCHANGED rosterVars \/ ScheduleNext
  BY <1>0, <1>1, ScheduleFrame DEF rosterVars, people
<1>2. CASE CreateParticipant
  <2> PICK x \in Participant \ Existing(participant), site \in Site \cup {None} :
        /\ passwords' = passwords + 1
        /\ participant' = [participant EXCEPT ![x] = [site |-> site, active |-> TRUE, password |-> passwords']]
        /\ card' = card
    BY <1>2 DEF CreateParticipant
  <2>1. [site |-> site, active |-> TRUE, password |-> passwords'] \in PersonRow
    BY <1>0, NewPerson
  <2> DEFINE row == [site |-> site, active |-> TRUE, password |-> passwords']
  <2> HIDE DEF row
  <2>2. /\ participant' \in [Participant -> PersonRow \cup {None}]
        /\ \A p \in Participant : participant[p] # None => participant'[p] # None
    <3>1. row \in PersonRow /\ participant' = [participant EXCEPT ![x] = row]
      BY <2>1 DEF row
    <3>2. row # None
      BY <3>1, RosterAssumption
    <3>3. QED
      BY <1>0, <3>1, <3>2
  <2>3. passwords' \in Nat /\ DOMAIN card' = Participant
    BY <1>0
  <2>4. QED
    BY <2>2, <2>3
<1>3. CASE PatchParticipant
  <2> PICK x \in Existing(participant) :
        \/ /\ \E active \in BOOLEAN, site \in Site \cup {None} :
                participant' = [participant EXCEPT ![x].active = active, ![x].site = site]
           /\ UNCHANGED <<passwords, card, doubtful>>
        \/ /\ passwords' = passwords + 1
           /\ participant' = [participant EXCEPT ![x].password = passwords']
           /\ card' = card
    BY <1>3 DEF PatchParticipant
  <2>0. x \in Participant /\ participant[x] \in PersonRow
    BY <1>0, RowsExist
  <2>1. ASSUME NEW row \in PersonRow, participant' = [participant EXCEPT ![x] = row],
               DOMAIN card' = Participant, passwords' \in Nat
        PROVE  /\ participant' \in [Participant -> PersonRow \cup {None}]
               /\ \A p \in Participant : participant[p] # None => participant'[p] # None
    BY <1>0, <2>0, <2>1, RosterAssumption
  <2>2. CASE /\ \E active \in BOOLEAN, site \in Site \cup {None} :
                  participant' = [participant EXCEPT ![x].active = active, ![x].site = site]
             /\ UNCHANGED <<passwords, card, doubtful>>
    <3> PICK active \in BOOLEAN, site \in Site \cup {None} :
               participant' = [participant EXCEPT ![x].active = active, ![x].site = site]
      BY <2>2
    <3> DEFINE row == [participant[x] EXCEPT !.active = active, !.site = site]
    <3>1. row \in PersonRow
      BY <2>0, PersonMoved
    <3>2. participant' = [participant EXCEPT ![x] = row]
      BY <1>0, <2>0
    <3> HIDE DEF row
    <3>3. QED
      BY <1>0, <2>1, <2>2, <3>1, <3>2
  <2>3. CASE /\ passwords' = passwords + 1
             /\ participant' = [participant EXCEPT ![x].password = passwords']
             /\ card' = card
    <3> DEFINE row == [participant[x] EXCEPT !.password = passwords']
    <3>1. row \in PersonRow
      <4> DEFINE old == participant[x]
                 password == passwords'
      <4>1. old \in PersonRow /\ password \in Nat
        BY <1>0, <2>0, <2>3
      <4> HIDE DEF old, password
      <4>2. [old EXCEPT !.password = password] \in PersonRow
        BY <4>1, PersonReset
      <4>3. QED
        BY <4>2 DEF old, password
    <3>2. participant' = [participant EXCEPT ![x] = row]
      BY <1>0, <2>0, <2>3
    <3>3. DOMAIN card' = Participant /\ passwords' \in Nat
      BY <1>0, <2>3
    <3> HIDE DEF row
    <3>4. QED
      BY <2>1, <3>1, <3>2, <3>3
  <2>4. QED
    BY <2>2, <2>3
<1>4. CASE DeleteParticipant
  <2>1. PICK x \in Existing(participant) :
          /\ \A s \in Schedule : <<s, x>> \notin attempt
          /\ participant' = [participant EXCEPT ![x] = None]
          /\ enrolled' = {e \in enrolled : e[2] # x}
          /\ UNCHANGED <<passwords, card, doubtful, schedule, attempt, shut, admin>>
    BY <1>4 DEF DeleteParticipant
  <2>2. participant' \in [Participant -> PersonRow \cup {None}]
    BY <1>0, <2>1
  <2>3. \A s \in Schedule : <<s, x>> \notin enrolled' \cup attempt'
    BY <2>1
  <2>4. \A p \in Participant : p # x => participant'[p] = participant[p]
    BY <1>0, <2>1
  <2>5. \A p \in Participant :
          \/ participant[p] # None => participant'[p] # None
          \/ \A s \in Schedule : <<s, p>> \notin enrolled' \cup attempt'
    BY <2>3, <2>4
  <2>6. passwords' \in Nat /\ DOMAIN card' = Participant
    BY <1>0, <2>1
  <2>7. QED
    BY <2>2, <2>5, <2>6
<1>5. CASE BeginImport \/ BeginReset
  <2>1. passwords' = passwords + 1 /\ UNCHANGED <<participant, card>>
    BY <1>5 DEF BeginImport, BeginReset
  <2>2. QED
    BY <1>0, <2>1
<1>6. CASE CommitImport
  <2> PICK c \in Admin :
        /\ At(admin, c, "import")
        /\ LET r == admin[c]
               RowOf(x) == CHOOSE row \in r.rows : row.number = x
               numbers == {row.number : row \in r.rows}
               taken == \E row \in r.new : participant[row.number] # None
           IN IF taken THEN UNCHANGED participant
              ELSE participant' = [x \in Participant |->
                         IF x \notin numbers THEN participant[x]
                         ELSE IF RowOf(x) \in r.new
                         THEN [site |-> SiteIn(RowOf(x), None), active |-> TRUE, password |-> r.secret[x]]
                         ELSE IF r.update /\ participant[x] # None
                         THEN Imported(participant[x], RowOf(x), r.secret) ELSE participant[x]]
        /\ UNCHANGED <<passwords, card, doubtful, sessions>>
    BY <1>6 DEF CommitImport
  <2>1. CASE \E row \in admin[c].new : participant[row.number] # None
    BY <1>0, <2>1
  <2>2. CASE \A row \in admin[c].new : participant[row.number] = None
    <3>1. \A p \in Participant : participant'[p] \in PersonRow \cup {None}
      BY <2>2, ImportedPerson DEF At
    <3>2. participant' = [p \in Participant |-> participant'[p]]
      BY <2>2
    <3>3. participant' \in [Participant -> PersonRow \cup {None}]
      BY <3>1, <3>2
    <3>4. \A p \in Participant : participant[p] # None => participant'[p] # None
      BY <2>2, ImportedPerson DEF At
    <3>5. QED
      BY <1>0, <3>3, <3>4
  <2>3. QED
    BY <2>1, <2>2
<1>7. CASE ResetOne
  <2> PICK c \in Admin :
        /\ At(admin, c, "tell") \/ At(admin, c, "stray")
        /\ \E x \in admin[c].todo :
             /\ admin' = [admin EXCEPT ![c].todo = @ \ {x}]
             /\ participant' = [participant EXCEPT ![x] =
                  IF @ = None THEN None ELSE [@ EXCEPT !.password = admin[c].secret[x]]]
        /\ UNCHANGED <<passwords, card, doubtful, sessions>>
    BY <1>7 DEF ResetOne
  <2> PICK x \in admin[c].todo :
        /\ admin' = [admin EXCEPT ![c].todo = @ \ {x}]
        /\ participant' = [participant EXCEPT ![x] =
             IF @ = None THEN None ELSE [@ EXCEPT !.password = admin[c].secret[x]]]
    OBVIOUS
  <2>1. /\ participant'[x] \in PersonRow \cup {None} /\ (participant[x] # None => participant'[x] \in PersonRow)
        /\ \A p \in Participant \ {x} : participant'[p] = participant[p]
        /\ participant' = [p \in Participant |-> participant'[p]]
    BY ResetWrites DEF At
  <2>2. \A p \in Participant : participant'[p] \in PersonRow \cup {None}
    BY <1>0, <2>1
  <2>3. participant' \in [Participant -> PersonRow \cup {None}]
    BY <2>1, <2>2
  <2>4. \A p \in Participant : participant[p] # None => participant'[p] # None
    BY <2>1, RosterAssumption
  <2>5. QED
    BY <1>0, <2>3, <2>4
<1>8. CASE Answer
  <2>1. DOMAIN card' = Participant
    BY <1>0, <1>8 DEF Answer, At, SecretOK, Handing, Over
  <2>2. UNCHANGED <<participant, passwords>>
    BY <1>8 DEF Answer
  <2>3. QED
    BY <1>0, <2>1, <2>2
<1>9. CASE AdminDies \/ ResetFails
  BY <1>0, <1>9 DEF AdminDies, ResetFails
<1>10. QED
  BY <1>1, <1>2, <1>3, <1>4, <1>5, <1>6, <1>7, <1>8, <1>9 DEF RosterNext, ParticipantNext

\* What is known of schedules, and of the requests about them.
SessionsOK ==
  /\ schedule \in [Schedule -> SessionRow \cup {None}]
  /\ enrolled \subseteq Schedule \X Participant /\ attempt \subseteq Schedule \X Participant
  /\ shut \subseteq Schedule /\ DOMAIN admin = Admin
  /\ \A c \in Admin : OtherOK(admin[c])
  /\ ReferredStay /\ ShutStays

LEMMA SessionsStepParticipants ==
  ASSUME RosterInv, ParticipantNext \/ AdminDies \/ UNCHANGED rosterVars
  PROVE  SessionsOK'
<1>0. /\ SessionsOK /\ DOMAIN participant = Participant
  BY DEF RosterInv, RosterTyped, AdminOK, SessionsOK
<1>1. /\ UNCHANGED <<schedule, attempt, shut>> /\ enrolled' \subseteq enrolled
      /\ \A c \in Admin : admin'[c] = admin[c] \/ admin'[c].op \in {"idle"} \cup Handing
  BY ParticipantFrame
<1>2. DOMAIN admin' = Admin
  BY <1>0 DEF SessionsOK, ParticipantNext, AdminDies, rosterVars, CreateParticipant, PatchParticipant,
       DeleteParticipant, BeginImport, CommitImport, BeginReset, ResetOne, ResetFails, Answer, Busy, Ended
<1>3. \A c \in Admin : OtherOK(admin[c])'
  BY <1>0, <1>1 DEF SessionsOK, OtherOK, Handing
<1>4. ReferredStay'
  <2>1. \A p \in Participant :
          \/ participant[p] # None => participant'[p] # None
          \/ \A s \in Schedule : <<s, p>> \notin enrolled' \cup attempt'
    BY PeopleTyped DEF RosterNext
  <2>2. QED
    BY <1>0, <1>1, <2>1 DEF SessionsOK, ReferredStay
<1>5. ShutStays'
  BY <1>0, <1>1 DEF SessionsOK, ShutStays, Publishing, At, Handing
<1>6. QED
  BY <1>0, <1>1, <1>2, <1>3, <1>4, <1>5 DEF SessionsOK

\* Actions that begin a request and change no table.
LEMMA SessionsStepBegin ==
  ASSUME SessionsOK, UNCHANGED <<participant, schedule, enrolled, attempt, shut>>,
         NEW c \in Admin, NEW r, admin' = [admin EXCEPT ![c] = r], OtherOK(r),
         r.op = "publish" => r.schedule \notin shut
  PROVE  SessionsOK'
<1>1. DOMAIN admin' = Admin /\ admin'[c] = r /\ \A d \in Admin \ {c} : admin'[d] = admin[d]
  BY DEF SessionsOK
<1>2. \A d \in Admin : OtherOK(admin[d])'
  BY <1>1 DEF SessionsOK, OtherOK
<1>3. ReferredStay'
  BY DEF SessionsOK, ReferredStay
<1>4. ShutStays'
  BY <1>1 DEF SessionsOK, ShutStays, Publishing, At
<1>5. QED
  BY <1>1, <1>2, <1>3, <1>4 DEF SessionsOK

\* Actions that end a request, or are one: they change the row of one schedule.
LEMMA SessionsStepRow ==
  ASSUME SessionsOK, UNCHANGED <<participant, attempt>>,
         DOMAIN admin' = Admin, \A c \in Admin : admin'[c] = admin[c] \/ admin'[c] = Idle,
         NEW s \in Schedule, NEW row \in SessionRow \cup {None},
         schedule' = [schedule EXCEPT ![s] = row],
         enrolled' \subseteq Schedule \X Participant, shut' \subseteq shut \cup {s},
         \A t \in Schedule \ {s}, p \in Participant : <<t, p>> \in enrolled' => <<t, p>> \in enrolled,
         \A p \in Participant : <<s, p>> \in enrolled' \cup attempt => row # None /\ participant[p] # None,
         s \in shut' => row # None /\ row.status = "closed" /\ ~Publishing(s)
  PROVE  SessionsOK'
<1>1. schedule' \in [Schedule -> SessionRow \cup {None}] /\ schedule'[s] = row
      /\ \A t \in Schedule \ {s} : schedule'[t] = schedule[t]
  BY DEF SessionsOK
<1>2. \A c \in Admin : OtherOK(admin[c])'
  BY DEF SessionsOK, OtherOK, Idle
<1>3. ReferredStay'
  BY <1>1 DEF SessionsOK, ReferredStay
<1>4. ShutStays'
  <2>1. \A t : Publishing(t)' => Publishing(t)
    BY DEF Publishing, At, Idle
  <2>2. QED
    BY <1>1, <2>1 DEF SessionsOK, ShutStays
<1>5. QED
  BY <1>1, <1>2, <1>3, <1>4 DEF SessionsOK

LEMMA SessionsStepSchedules ==
  ASSUME RosterInv, ScheduleNext
  PROVE  SessionsOK'
<1>0. SessionsOK /\ participant \in [Participant -> PersonRow \cup {None}]
  BY DEF RosterInv, RosterTyped, AdminOK, SessionsOK
<1>1. /\ schedule \in [Schedule -> SessionRow \cup {None}] /\ DOMAIN admin = Admin /\ shut \subseteq Schedule
      /\ enrolled \subseteq Schedule \X Participant /\ attempt \subseteq Schedule \X Participant
  BY <1>0 DEF SessionsOK
<1>2. \A s \in Schedule, p \in Participant : <<s, p>> \in enrolled \cup attempt => schedule[s] # None /\ participant[p] # None
  BY <1>0 DEF SessionsOK, ReferredStay
<1>3. \A s \in shut : schedule[s] # None /\ schedule[s].status = "closed" /\ ~Publishing(s)
  BY <1>0 DEF SessionsOK, ShutStays
<1>4. participant' = participant
  BY ScheduleFrame DEF people
<1>5. CASE CreateSchedule
  <2>1. PICK s \in Schedule \ Existing(schedule), site \in Site, start, end \in Times, enrol \in BOOLEAN :
          /\ schedule' = [schedule EXCEPT ![s] = NewSession(site, [start |-> start, end |-> end])]
          /\ enrolled' = enrolled \cup
               (IF enrol THEN {<<s, p>> : p \in {x \in Existing(participant) : participant[x].site = site}} ELSE {})
          /\ UNCHANGED <<people, attempt, shut, admin>>
    BY <1>5 DEF CreateSchedule
  <2> DEFINE row == NewSession(site, [start |-> start, end |-> end])
  <2>2. row \in SessionRow
    BY DEF NewSession, SessionRow
  <2>3. row # None /\ schedule[s] = None
    BY <1>1, <2>2, RosterAssumption DEF Existing
  <2> HIDE DEF row
  <2>4. \A e \in enrolled' \ enrolled : \E p \in Participant : e = <<s, p>> /\ participant[p] # None
    BY <1>0, <2>1 DEF Existing
  <2>5. enrolled' \subseteq Schedule \X Participant
    BY <1>1, <2>4
  <2>6. schedule' = [schedule EXCEPT ![s] = row]
    BY <2>1 DEF row
  <2>7. UNCHANGED <<attempt, shut, admin>>
    BY <2>1
  <2>8. s \notin shut /\ \A p \in Participant : <<s, p>> \notin attempt
    BY <1>2, <1>3, <2>3
  <2>9. \A p \in Participant : <<s, p>> \in enrolled' => participant[p] # None
    BY <1>2, <2>4
  <2>10. \A t \in Schedule \ {s}, p \in Participant : <<t, p>> \in enrolled' => <<t, p>> \in enrolled
    BY <2>4
  <2>11. QED
    BY <1>0, <1>1, <1>4, <2>2, <2>3, <2>5, <2>6, <2>7, <2>8, <2>9, <2>10, SessionsStepRow
<1>6. CASE BeginPatchSchedule
  <2>1. PICK c \in Admin, s \in Existing(schedule), b \in Bodies :
          /\ Busy(c, [op |-> "patch", schedule |-> s, body |-> b])
          /\ UNCHANGED <<people, sessions>>
    BY <1>6 DEF BeginPatchSchedule
  <2> DEFINE r == [op |-> "patch", schedule |-> s, body |-> b]
  <2>2. OtherOK(r) /\ r.op # "publish"
    BY <1>1 DEF OtherOK, Existing
  <2>3. admin' = [admin EXCEPT ![c] = r] /\ UNCHANGED <<schedule, enrolled, attempt, shut>>
    BY <2>1 DEF Busy, sessions
  <2> HIDE DEF r
  <2>4. QED
    BY <1>0, <1>4, <2>2, <2>3, SessionsStepBegin
<1>7. CASE BeginPublish
  <2>1. PICK c \in Admin, s \in Existing(schedule) :
          /\ MayPublish(s)
          /\ Busy(c, [op |-> "publish", schedule |-> s])
          /\ UNCHANGED <<people, sessions>>
    BY <1>7 DEF BeginPublish
  <2> DEFINE r == [op |-> "publish", schedule |-> s]
  <2>2. OtherOK(r) /\ r.schedule \notin shut
    BY <1>1, <1>3, <2>1 DEF OtherOK, Existing, MayPublish
  <2>3. admin' = [admin EXCEPT ![c] = r] /\ UNCHANGED <<schedule, enrolled, attempt, shut>>
    BY <2>1 DEF Busy, sessions
  <2> HIDE DEF r
  <2>4. QED
    BY <1>0, <1>4, <2>2, <2>3, SessionsStepBegin
<1>8. CASE BeginDeleteSchedule
  <2>1. PICK c \in Admin, s \in Existing(schedule) :
          /\ Busy(c, [op |-> "delete", schedule |-> s])
          /\ UNCHANGED <<people, sessions>>
    BY <1>8 DEF BeginDeleteSchedule
  <2> DEFINE r == [op |-> "delete", schedule |-> s]
  <2>2. OtherOK(r) /\ r.op # "publish"
    BY <1>1 DEF OtherOK, Existing
  <2>3. admin' = [admin EXCEPT ![c] = r] /\ UNCHANGED <<schedule, enrolled, attempt, shut>>
    BY <2>1 DEF Busy, sessions
  <2> HIDE DEF r
  <2>4. QED
    BY <1>0, <1>4, <2>2, <2>3, SessionsStepBegin
<1>9. CASE BeginEnrol
  <2>1. PICK c \in Admin, s \in Existing(schedule), chosen \in SUBSET Existing(participant) :
          /\ Busy(c, [op |-> "enrol", schedule |-> s, chosen |-> chosen])
          /\ UNCHANGED <<people, sessions>>
    BY <1>9 DEF BeginEnrol
  <2> DEFINE r == [op |-> "enrol", schedule |-> s, chosen |-> chosen]
  <2>2. OtherOK(r) /\ r.op # "publish"
    BY <1>0, <1>1 DEF OtherOK, Existing
  <2>3. admin' = [admin EXCEPT ![c] = r] /\ UNCHANGED <<schedule, enrolled, attempt, shut>>
    BY <2>1 DEF Busy, sessions
  <2> HIDE DEF r
  <2>4. QED
    BY <1>0, <1>4, <2>2, <2>3, SessionsStepBegin
<1>10. CASE EndPatchSchedule
  <2>1. PICK c \in Admin :
          /\ At(admin, c, "patch")
          /\ schedule' = [schedule EXCEPT ![admin[c].schedule] = IF @ = None THEN None ELSE Over(admin[c].body, @)]
          /\ shut' = IF "status" \in DOMAIN admin[c].body THEN shut \ {admin[c].schedule} ELSE shut
          /\ Ended(c)
          /\ UNCHANGED <<people, enrolled, attempt>>
    BY <1>10 DEF EndPatchSchedule
  <2> DEFINE s == admin[c].schedule
             row == IF schedule[s] = None THEN None ELSE Over(admin[c].body, schedule[s])
  <2>2. s \in Schedule /\ admin[c].body \in Bodies
    BY <1>0, <2>1 DEF SessionsOK, OtherOK, At
  <2>3. schedule[s] # None =>
          /\ row \in SessionRow
          /\ "status" \notin DOMAIN admin[c].body => row.status = schedule[s].status
    BY <1>1, <2>2, SessionPatched
  <2>4. row \in SessionRow \cup {None} /\ (schedule[s] # None => row # None)
    BY <2>3, RosterAssumption
  <2>5. schedule' = [schedule EXCEPT ![s] = row]
    BY <1>1, <2>1, <2>2
  <2>6. s \in shut' => s \in shut /\ row # None /\ row.status = "closed"
    BY <1>3, <2>1, <2>3, <2>4
  <2>7. DOMAIN admin' = Admin /\ \A d \in Admin : admin'[d] = admin[d] \/ admin'[d] = Idle
    BY <1>1, <2>1 DEF Ended
  <2>8. UNCHANGED <<enrolled, attempt>> /\ shut' \subseteq shut
    BY <2>1
  <2> HIDE DEF s, row
  <2>9. \A p \in Participant : <<s, p>> \in enrolled' \cup attempt => row # None /\ participant[p] # None
    BY <1>2, <2>2, <2>4, <2>8
  <2>10. s \in shut' => ~Publishing(s)
    BY <1>3, <2>6
  <2>11. QED
    BY <1>0, <1>1, <1>4, <2>2, <2>4, <2>5, <2>6, <2>7, <2>8, <2>9, <2>10, SessionsStepRow
<1>11. CASE Close
  <2>1. PICK s \in Existing(schedule) :
          /\ schedule' = [schedule EXCEPT ![s].status = "closed"]
          /\ shut' = IF Publishing(s) THEN shut ELSE shut \cup {s}
          /\ UNCHANGED <<people, enrolled, attempt, admin>>
    BY <1>11 DEF Close
  <2> DEFINE row == [schedule[s] EXCEPT !.status = "closed"]
  <2>2. s \in Schedule /\ schedule[s] \in SessionRow
    BY <1>1 DEF Existing
  <2>3. row \in SessionRow /\ row.status = "closed"
    BY <2>2 DEF SessionRow
  <2>4. row # None
    BY <2>3, RosterAssumption
  <2>5. schedule' = [schedule EXCEPT ![s] = row]
    BY <1>1, <2>1, <2>2
  <2>6. s \in shut' => ~Publishing(s)
    BY <1>3, <2>1
  <2>7. UNCHANGED <<enrolled, attempt, admin>> /\ shut' \subseteq shut \cup {s}
    BY <2>1
  <2> HIDE DEF row
  <2>8. \A p \in Participant : <<s, p>> \in enrolled' \cup attempt => row # None /\ participant[p] # None
    BY <1>2, <2>2, <2>4, <2>7
  <2>9. QED
    BY <1>0, <1>1, <1>4, <2>2, <2>3, <2>4, <2>5, <2>6, <2>7, <2>8, SessionsStepRow
<1>12. CASE EndPublish
  <2>1. PICK c \in Admin :
          /\ At(admin, c, "publish")
          /\ schedule' = [schedule EXCEPT ![admin[c].schedule] =
               IF @ = None THEN None ELSE [@ EXCEPT !.status = "published"]]
          /\ Ended(c)
          /\ UNCHANGED <<people, enrolled, attempt, shut>>
    BY <1>12 DEF EndPublish
  <2> DEFINE s == admin[c].schedule
             row == IF schedule[s] = None THEN None ELSE [schedule[s] EXCEPT !.status = "published"]
  <2>2. s \in Schedule /\ Publishing(s)
    BY <1>0, <2>1 DEF SessionsOK, OtherOK, At, Publishing
  <2>3. schedule[s] # None => row \in SessionRow
    BY <1>1, <2>2 DEF SessionRow
  <2>4. row \in SessionRow \cup {None} /\ (schedule[s] # None => row # None)
    BY <2>3, RosterAssumption
  <2>5. schedule' = [schedule EXCEPT ![s] = row]
    BY <1>1, <2>1, <2>2
  <2>6. DOMAIN admin' = Admin /\ \A d \in Admin : admin'[d] = admin[d] \/ admin'[d] = Idle
    BY <1>1, <2>1 DEF Ended
  <2>7. UNCHANGED <<enrolled, attempt, shut>> /\ s \notin shut
    BY <1>3, <2>1, <2>2
  <2> HIDE DEF s, row
  <2>8. \A p \in Participant : <<s, p>> \in enrolled' \cup attempt => row # None /\ participant[p] # None
    BY <1>2, <2>2, <2>4, <2>7
  <2>9. QED
    BY <1>0, <1>1, <1>4, <2>2, <2>4, <2>5, <2>6, <2>7, <2>8, SessionsStepRow
<1>13. CASE EndDeleteSchedule
  <2>1. PICK c \in Admin :
          /\ At(admin, c, "delete")
          /\ IF Erasable(admin[c].schedule)
             THEN /\ schedule' = [schedule EXCEPT ![admin[c].schedule] = None]
                  /\ enrolled' = {e \in enrolled : e[1] # admin[c].schedule}
                  /\ shut' = shut \ {admin[c].schedule}
             ELSE UNCHANGED <<schedule, enrolled, shut>>
          /\ Ended(c)
          /\ UNCHANGED <<people, attempt>>
    BY <1>13 DEF EndDeleteSchedule
  <2> DEFINE s == admin[c].schedule
             row == IF Erasable(s) THEN None ELSE schedule[s]
  <2>2. s \in Schedule
    BY <1>0, <2>1 DEF SessionsOK, OtherOK, At
  <2>3. DOMAIN admin' = Admin /\ \A d \in Admin : admin'[d] = admin[d] \/ admin'[d] = Idle
    BY <1>1, <2>1 DEF Ended
  <2>4. schedule' = [schedule EXCEPT ![s] = row] /\ row \in SessionRow \cup {None}
    BY <1>1, <2>1, <2>2
  <2>5. shut' \subseteq shut /\ enrolled' \subseteq enrolled /\ attempt' = attempt
    BY <2>1
  <2>6. \A p \in Participant : <<s, p>> \in enrolled' \cup attempt => row # None /\ participant[p] # None
    BY <1>2, <2>1, <2>2 DEF Erasable
  <2>7. s \in shut' => row # None /\ row.status = "closed" /\ ~Publishing(s)
    BY <1>3, <2>1
  <2> HIDE DEF s, row
  <2>8. QED
    BY <1>0, <1>1, <1>4, <2>2, <2>3, <2>4, <2>5, <2>6, <2>7, SessionsStepRow
<1>14. CASE EndEnrol
  <2>1. PICK c \in Admin :
          /\ At(admin, c, "enrol")
          /\ enrolled' = IF schedule[admin[c].schedule] # None /\ admin[c].chosen \subseteq Existing(participant)
                         THEN enrolled \cup {<<admin[c].schedule, p>> : p \in admin[c].chosen} ELSE enrolled
          /\ Ended(c)
          /\ UNCHANGED <<people, schedule, attempt, shut>>
    BY <1>14 DEF EndEnrol
  <2>2. admin[c].schedule \in Schedule
    BY <1>0, <2>1 DEF SessionsOK, OtherOK, At
  <2>3. \A e \in enrolled' \ enrolled :
          \E p \in Participant : e = <<admin[c].schedule, p>> /\ schedule[admin[c].schedule] # None /\ participant[p] # None
    BY <1>0, <2>1 DEF Existing
  <2>4. enrolled' \subseteq Schedule \X Participant
    BY <1>1, <2>2, <2>3
  <2>5. ReferredStay'
    <3>1. \A t \in Schedule, p \in Participant : <<t, p>> \in enrolled' => schedule[t] # None /\ participant[p] # None
      BY <1>2, <2>3
    <3>2. QED
      BY <1>2, <1>4, <2>1, <3>1 DEF ReferredStay
  <2>6. DOMAIN admin' = Admin /\ \A d \in Admin : admin'[d] = admin[d] \/ admin'[d] = Idle
    BY <1>1, <2>1 DEF Ended
  <2>7. ShutStays'
    BY <1>3, <2>1, <2>6 DEF ShutStays, Publishing, At, Idle
  <2>8. \A d \in Admin : OtherOK(admin[d])'
    BY <1>0, <2>6 DEF SessionsOK, OtherOK, Idle
  <2>9. QED
    BY <1>1, <2>1, <2>4, <2>5, <2>6, <2>7, <2>8 DEF SessionsOK
<1>15. CASE Unenrol \/ AttemptArrives
  <2>1. UNCHANGED <<schedule, shut, admin>>
    BY <1>15 DEF Unenrol, AttemptArrives
  <2>2. /\ enrolled' \subseteq Schedule \X Participant /\ attempt' \subseteq Schedule \X Participant
        /\ ReferredStay'
    <3>1. CASE Unenrol
      BY <1>1, <1>2, <1>4, <3>1 DEF Unenrol, ReferredStay
    <3>2. CASE AttemptArrives
      <4>1. PICK s \in Existing(schedule), p \in Existing(participant) :
              attempt' = attempt \cup {<<s, p>>} /\ UNCHANGED enrolled
        BY <3>2 DEF AttemptArrives
      <4>2. s \in Schedule /\ p \in Participant /\ schedule[s] # None /\ participant[p] # None
        BY <1>0, <1>1 DEF Existing
      <4>3. QED
        BY <1>1, <1>2, <1>4, <2>1, <4>1, <4>2 DEF ReferredStay
    <3>3. QED
      BY <1>15, <3>1, <3>2
  <2>3. ShutStays'
    BY <1>3, <2>1 DEF ShutStays, Publishing
  <2>4. \A d \in Admin : OtherOK(admin[d])'
    BY <1>0, <2>1 DEF SessionsOK, OtherOK
  <2>5. QED
    BY <1>1, <2>1, <2>2, <2>3, <2>4 DEF SessionsOK
<1>16. QED
  BY <1>5, <1>6, <1>7, <1>8, <1>9, <1>10, <1>11, <1>12, <1>13, <1>14, <1>15 DEF ScheduleNext

LEMMA PasswordsGrow ==
  ASSUME RosterInv, [RosterNext]_rosterVars
  PROVE  passwords \in Nat /\ passwords' \in Nat /\ passwords <= passwords'
<1>0. passwords \in Nat
  BY DEF RosterInv, RosterTyped
<1>1. passwords' = passwords \/ passwords' = passwords + 1
  <2>1. CASE UNCHANGED rosterVars \/ ScheduleNext
    BY <2>1, ScheduleFrame DEF rosterVars, people
  <2>2. CASE ParticipantNext \/ AdminDies
    BY <2>2 DEF ParticipantNext, AdminDies, CreateParticipant, PatchParticipant, DeleteParticipant,
         BeginImport, CommitImport, BeginReset, ResetOne, ResetFails, Answer
  <2>3. QED
    BY <2>1, <2>2 DEF RosterNext
<1>2. QED
  BY <1>0, <1>1

\* Passwords that somebody is about to set or to tell stay doubtful.
LEMMA DoubtsStay ==
  ASSUME RosterInv, [RosterNext]_rosterVars, NEW c \in Admin, NEW p \in doubtful, Hands(c, p)
  PROVE  p \in doubtful'
<1>1. CASE \E d \in Admin : Begun(d)
  <2>1. PICK d \in Admin :
          /\ admin[d].op = "idle" /\ doubtful \ DOMAIN admin'[d].secret \subseteq doubtful'
          /\ DOMAIN admin'[d].secret \cap Handled(d) \subseteq doubtful'
    BY <1>1 DEF Begun
  <2>2. p \in Handled(d)
    BY <2>1, HandledBy DEF Hands, Handing
  <2>3. QED
    BY <2>1, <2>2
<1>2. CASE doubtful \subseteq doubtful'
  BY <1>2
<1>3. QED
  BY <1>1, <1>2, RequestsStep DEF Moved

\* Who hands out a password of p after a step did before, or its request began.
LEMMA HandsStep ==
  ASSUME RosterInv, [RosterNext]_rosterVars
  PROVE  /\ doubtful' \subseteq Participant /\ OneHand'
         /\ \A c \in Admin : (SecretOK(admin[c]) /\ ImportOK(admin[c]))'
<1>0. /\ doubtful \subseteq Participant /\ OneHand
      /\ \A c \in Admin : SecretOK(admin[c]) /\ ImportOK(admin[c])
  BY DEF RosterInv, RosterTyped, AdminOK
<1>1. passwords \in Nat /\ passwords' \in Nat /\ passwords <= passwords'
  BY PasswordsGrow
\* Of two that had the password before, at a time it was doubtful already.
<1>2. ASSUME NEW c \in Admin, NEW d \in Admin, NEW p \in Participant, Hands(c, p), Hands(d, p)
      PROVE  c = d \/ p \in doubtful'
  BY <1>0, <1>2, DoubtsStay DEF OneHand
<1>3. ASSUME NEW c \in Admin, admin'[c] = admin[c]
      PROVE  (SecretOK(admin[c]) /\ ImportOK(admin[c]))'
  <2> DEFINE r == admin[c]
  <2>1. SecretOK(r) /\ ImportOK(r) /\ admin'[c] = r
    BY <1>0, <1>3
  <2>2. r.op = "import" => \A p \in DOMAIN r.secret \cap doubtful : p \in doubtful'
    BY DoubtsStay DEF Hands, Handing
  <2> HIDE DEF r
  <2>3. (SecretOK(admin[c]))'
    BY <1>1, <2>1 DEF SecretOK
  <2>4. (ImportOK(admin[c]))'
    BY <2>1, <2>2 DEF ImportOK
  <2>5. QED
    BY <2>3, <2>4
<1>4. ASSUME NEW c \in Admin, Begun(c)
      PROVE  /\ doubtful' \subseteq Participant /\ OneHand'
             /\ \A d \in Admin : (SecretOK(admin[d]) /\ ImportOK(admin[d]))'
  <2>1. /\ admin[c].op = "idle" /\ \A d \in Admin \ {c} : admin'[d] = admin[d]
        /\ admin'[c].op \in {"import", "tell"} /\ DOMAIN admin'[c].secret \subseteq Participant
        /\ \A p \in DOMAIN admin'[c].secret : admin'[c].secret[p] = passwords + 1
        /\ passwords' = passwords + 1
        /\ doubtful' \subseteq Participant
        /\ DOMAIN admin'[c].secret \cap Handled(c) \subseteq doubtful'
        /\ (ImportOK(admin[c]))'
    BY <1>4 DEF Begun
  <2>2. \A d \in Admin \ {c}, p \in Participant : Hands(c, p)' /\ Hands(d, p)' => p \in doubtful'
    <3>1. \A d \in Admin \ {c}, p \in Participant : Hands(d, p)' => p \in Handled(c)
      BY <2>1, HandledBy DEF Hands
    <3>2. QED
      BY <2>1, <3>1 DEF Hands
  <2>3. \A d \in Admin \ {c}, p \in Participant : Hands(d, p)' => Hands(d, p)
    BY <2>1 DEF Hands
  <2>4. OneHand'
    BY <1>2, <2>2, <2>3 DEF OneHand
  <2>5. (SecretOK(admin[c]))'
    BY <1>1, <2>1 DEF SecretOK
  <2>6. QED
    BY <1>3, <2>1, <2>4, <2>5
<1>5. ASSUME NEW c \in Admin, Moved(c)
      PROVE  /\ doubtful' \subseteq Participant /\ OneHand'
             /\ \A d \in Admin : (SecretOK(admin[d]) /\ ImportOK(admin[d]))'
  <2>1. \A d \in Admin, p \in Participant : Hands(d, p)' => Hands(d, p)
    BY <1>5 DEF Moved, Hands, Handing, Idle
  <2>2. OneHand'
    BY <1>2, <2>1 DEF OneHand
  <2>3. (ImportOK(admin[c]))'
    BY <1>5 DEF Moved, ImportOK, Idle
  <2>4. (SecretOK(admin[c]))'
    BY <1>0, <1>1, <1>5 DEF Moved, SecretOK, Idle, Handing
  <2>5. QED
    BY <1>3, <1>5, <2>2, <2>3, <2>4 DEF Moved
<1>6. CASE /\ UNCHANGED <<doubtful, passwords>>
           /\ \A c \in Admin : \/ admin'[c] = admin[c]
                               \/ admin[c].op \notin Handing /\ admin'[c].op \notin Handing
  <2>1. \A c \in Admin : \A p : Hands(c, p)' => Hands(c, p)
    BY <1>6 DEF Hands
  <2>2. OneHand'
    BY <1>2, <2>1 DEF OneHand
  <2>3. ASSUME NEW c \in Admin
        PROVE  (SecretOK(admin[c]) /\ ImportOK(admin[c]))'
    <3>1. CASE admin'[c].op \notin Handing
      BY <3>1 DEF SecretOK, ImportOK, Handing
    <3>2. QED
      BY <1>3, <1>6, <3>1
  <2>4. QED
    BY <1>0, <1>6, <2>2, <2>3
<1>7. QED
  BY <1>4, <1>5, <1>6, RequestsStep

\* Whoever was done has the password that is going to be told, after any step.
LEMMA TellStep ==
  ASSUME RosterInv, [RosterNext]_rosterVars, NEW c \in Admin
  PROVE  (TellOK(admin[c]))'
<1> DEFINE r == admin[c]
<1>0. TellOK(r) /\ SecretOK(r) /\ ImportOK(r) /\ OneHand
  BY DEF RosterInv, AdminOK
<1>1. ASSUME r.op \in Handing, NEW p \in doubtful, p \in DOMAIN r.secret
      PROVE  p \in doubtful'
  BY <1>1, DoubtsStay DEF Hands
\* The passwords of those that c leaves alone just now.
<1>2. ASSUME NEW p \in Participant, r.op = "tell", p \in DOMAIN r.secret, p \notin r.todo,
             p \notin doubtful', participant'[p] # None, admin'[c] # Idle
      PROVE  participant'[p].password = r.secret[p]
  <2>1. Tells(c, p) /\ Hands(c, p) /\ p \notin doubtful
    BY <1>1, <1>2 DEF Tells, Hands, Handing
  <2>2. participant[p] # None => participant[p].password = r.secret[p]
    BY <1>0, <1>2, <2>1 DEF TellOK
  <2>3. \A d \in Admin : Hands(d, p) => d = c
    BY <1>0, <2>1 DEF OneHand
  <2>4. \A d \in Admin : Tells(d, p) => Hands(d, p)
    BY DEF Hands, Tells, Handing
  <2>5. PersonStep(p)
    BY PersonStepHolds
  <2>6. r.op # "import"
    BY <1>2
  <2>7. QED
    BY <1>2, <2>1, <2>2, <2>3, <2>4, <2>5, <2>6 DEF PersonStep, LeftAlone
\* Those of an import that commits, and of the row that a reset writes.
<1>3. CASE CommitImport /\ r.op = "import" /\ admin'[c] # r
  <2>1. PICK d \in Admin :
        /\ At(admin, d, "import")
        /\ LET q == admin[d]
               RowOf(x) == CHOOSE row \in q.rows : row.number = x
               numbers == {row.number : row \in q.rows}
               taken == \E row \in q.new : participant[row.number] # None
           IN IF taken THEN Ended(d) /\ UNCHANGED participant
              ELSE /\ participant' = [x \in Participant |->
                         IF x \notin numbers THEN participant[x]
                         ELSE IF RowOf(x) \in q.new
                         THEN [site |-> SiteIn(RowOf(x), None), active |-> TRUE, password |-> q.secret[x]]
                         ELSE IF q.update /\ participant[x] # None
                         THEN Imported(participant[x], RowOf(x), q.secret) ELSE participant[x]]
                   /\ Busy(d, Telling({}, q.secret))
        /\ UNCHANGED <<passwords, card, doubtful, sessions>>
    BY <1>3 DEF CommitImport
  <2>2. DOMAIN admin = Admin
    BY DEF RosterInv, RosterTyped
  <2>3. d = c
    BY <1>3, <2>1, <2>2 DEF Ended, Busy
  <2>4. CASE \E row \in r.new : participant[row.number] # None
    <3>1. admin'[c] = Idle
      BY <2>1, <2>2, <2>3, <2>4 DEF Ended
    <3>2. QED
      BY <3>1 DEF TellOK, Idle
  <2>5. CASE \A row \in r.new : participant[row.number] = None
    <3>1. admin'[c] = Telling({}, r.secret)
      BY <2>1, <2>2, <2>3, <2>5 DEF Busy
    <3>2. \A p \in Participant : p \in DOMAIN r.secret /\ participant'[p] # None =>
            participant'[p].password = r.secret[p] \/ p \in doubtful
      BY <1>3, <2>1, <2>3, <2>5, ImportedPerson
    <3>3. DOMAIN r.secret \subseteq Participant /\ doubtful' = doubtful
      BY <1>0, <1>3, <2>1 DEF SecretOK, Handing
    <3> HIDE DEF r
    <3>4. /\ DOMAIN admin'[c] = {"op", "todo", "secret"} /\ admin'[c].op = "tell"
          /\ admin'[c].todo = {} /\ admin'[c].secret = r.secret
      BY <3>1, TellingIs
    <3>5. QED
      BY <3>2, <3>3, <3>4 DEF TellOK
  <2>6. QED
    BY <2>4, <2>5
<1>4. CASE ResetOne /\ admin'[c] # r
  <2>1. PICK d \in Admin :
          /\ At(admin, d, "tell") \/ At(admin, d, "stray")
          /\ \E x \in admin[d].todo :
               /\ admin' = [admin EXCEPT ![d].todo = @ \ {x}]
               /\ participant' = [participant EXCEPT ![x] =
                    IF @ = None THEN None ELSE [@ EXCEPT !.password = admin[d].secret[x]]]
          /\ UNCHANGED <<passwords, card, doubtful, sessions>>
    BY <1>4 DEF ResetOne
  <2>2. PICK x \in admin[d].todo :
          /\ admin' = [admin EXCEPT ![d].todo = @ \ {x}]
          /\ participant' = [participant EXCEPT ![x] =
               IF @ = None THEN None ELSE [@ EXCEPT !.password = admin[d].secret[x]]]
    BY <2>1
  <2>3. /\ participant'[x] # None => participant'[x].password = admin[d].secret[x]
        /\ DOMAIN admin'[d] = {"op", "todo", "secret"} /\ admin'[d].todo = admin[d].todo \ {x}
        /\ admin'[d].op = admin[d].op /\ admin'[d].secret = admin[d].secret
        /\ \A a \in Admin \ {d} : admin'[a] = admin[a]
    BY <2>1, <2>2, ResetWrites DEF At
  <2>4. d = c
    BY <1>4, <2>3
  <2>5. r.op \in {"tell", "stray"} /\ doubtful' = doubtful
    BY <2>1, <2>4 DEF At
  <2>6. r.todo \subseteq DOMAIN r.secret /\ DOMAIN r.secret \subseteq Participant
    BY <1>0, <2>5 DEF TellOK, SecretOK, Handing
  <2>7. /\ DOMAIN admin'[c] = {"op", "todo", "secret"} /\ admin'[c].todo = r.todo \ {x}
        /\ admin'[c].op = r.op /\ admin'[c].secret = r.secret
        /\ participant'[x] # None => participant'[x].password = r.secret[x]
        /\ admin'[c] # Idle
    BY <2>3, <2>4, <2>5 DEF Idle
  <2>8. r.op = "stray" => DOMAIN r.secret \subseteq doubtful
    BY <1>0, <2>5 DEF TellOK
  <2>9. ASSUME NEW p \in DOMAIN r.secret \ (admin'[c].todo \cup doubtful'), participant'[p] # None
        PROVE  participant'[p].password = r.secret[p]
    <3>1. CASE p = x
      BY <2>7, <2>9, <3>1
    <3>2. CASE p # x
      <4>1. p \notin r.todo /\ r.op = "tell" /\ p \in Participant
        BY <2>5, <2>6, <2>7, <2>8, <2>9, <3>2
      <4>2. QED
        BY <1>2, <2>7, <2>9, <4>1
    <3>3. QED
      BY <3>1, <3>2
  <2> HIDE DEF r
  <2>10. QED
    BY <2>5, <2>6, <2>7, <2>8, <2>9 DEF TellOK
<1>5. CASE ResetFails /\ admin'[c] # r
  <2>1. PICK d \in Admin :
          /\ At(admin, d, "tell")
          /\ \E p \in admin[d].todo : Busy(d, [Telling(admin[d].todo \ {p}, admin[d].secret) EXCEPT !.op = "stray"])
          /\ doubtful' = doubtful \cup DOMAIN admin[d].secret
    BY <1>5 DEF ResetFails
  <2>2. PICK p \in admin[d].todo : Busy(d, [Telling(admin[d].todo \ {p}, admin[d].secret) EXCEPT !.op = "stray"])
    BY <2>1
  <2>3. DOMAIN admin = Admin
    BY DEF RosterInv, RosterTyped
  <2>4. d = c
    BY <1>5, <2>2, <2>3 DEF Busy
  <2>5. admin'[c] = [Telling(r.todo \ {p}, r.secret) EXCEPT !.op = "stray"]
    BY <2>2, <2>3, <2>4 DEF Busy
  <2>6. DOMAIN r.secret \subseteq doubtful' /\ r.todo \subseteq DOMAIN r.secret
    BY <1>0, <2>1, <2>4 DEF TellOK, At
  <2> HIDE DEF r
  <2>7. /\ DOMAIN admin'[c] = {"op", "todo", "secret"} /\ admin'[c].op = "stray"
        /\ admin'[c].todo = r.todo \ {p} /\ admin'[c].secret = r.secret
    BY <2>5, TellingIs
  <2>8. QED
    BY <2>6, <2>7 DEF TellOK
<1>6. CASE admin'[c] = r
  <2>1. CASE r.op \notin {"tell", "stray"}
    BY <1>6, <2>1 DEF TellOK
  <2>2. CASE r.op \in {"tell", "stray"}
    <3>1. admin'[c] # Idle
      BY <1>6, <2>2 DEF Idle
    <3>2. /\ DOMAIN r = {"op", "todo", "secret"} /\ r.todo \subseteq DOMAIN r.secret
          /\ r.op = "stray" => DOMAIN r.secret \subseteq doubtful
          /\ DOMAIN r.secret \subseteq Participant
      BY <1>0, <2>2 DEF TellOK, SecretOK, Handing
    <3>3. r.op = "stray" => DOMAIN r.secret \subseteq doubtful'
      BY <1>1, <3>2 DEF Handing
    <3>4. \A p \in DOMAIN r.secret \ (r.todo \cup doubtful') :
            participant'[p] # None => participant'[p].password = r.secret[p]
      BY <1>2, <2>2, <3>1, <3>2, <3>3
    <3> HIDE DEF r
    <3>5. QED
      BY <1>6, <3>2, <3>3, <3>4 DEF TellOK
  <2>3. QED
    BY <2>1, <2>2
<1>7. CASE admin'[c].op \notin {"tell", "stray"}
  BY <1>7 DEF TellOK
<1>8. CASE \E d \in Admin : Begun(d)
  BY <1>6, <1>8 DEF Begun
<1>9. CASE ScheduleNext
  BY <1>6, <1>7, <1>9, ScheduleFrame DEF Handing
<1>10. CASE Answer \/ AdminDies
  <2>1. DOMAIN admin = Admin
    BY DEF RosterInv, RosterTyped
  <2>2. admin'[c] = r \/ admin'[c] = Idle
    BY <1>10, <2>1 DEF Answer, AdminDies, Ended
  <2>3. QED
    BY <1>6, <1>7, <2>2 DEF Idle
<1>11. CASE DeleteParticipant \/ (PatchParticipant /\ passwords' = passwords) \/ UNCHANGED rosterVars
  <2>1. passwords \in Nat
    BY DEF RosterInv, RosterTyped
  <2>2. admin' = admin
    BY <1>11, <2>1, PatchWithoutPassword DEF DeleteParticipant, rosterVars
  <2>3. QED
    BY <1>6, <2>2
<1>12. CASE CommitImport /\ r.op # "import"
  <2>1. DOMAIN admin = Admin
    BY DEF RosterInv, RosterTyped
  <2>2. admin'[c] = r
    BY <1>12, <2>1 DEF CommitImport, At, Ended, Busy
  <2>3. QED
    BY <1>6, <2>2
<1> HIDE DEF r
<1>13. BeginImport \/ BeginReset \/ CreateParticipant \/ (PatchParticipant /\ passwords' # passwords)
         => \E d \in Admin : Begun(d)
  BY RequestBegins
<1>14. QED
  BY <1>3, <1>4, <1>5, <1>6, <1>8, <1>9, <1>10, <1>11, <1>12, <1>13 DEF RosterNext, ParticipantNext

\* A card told to an administrator opens the account, while nobody sets it.
LEMMA CardsStep ==
  ASSUME RosterInv, [RosterNext]_rosterVars
  PROVE  CardFits' /\ PasswordsKnown'
<1>0. /\ CardFits /\ PasswordsKnown
      /\ passwords \in Nat /\ passwords' \in Nat /\ passwords <= passwords'
      /\ \A c \in Admin : TellOK(admin[c]) /\ SecretOK(admin[c])
  BY PasswordsGrow DEF RosterInv, AdminOK
<1>1. ASSUME NEW p \in Participant, p \notin doubtful', participant'[p] # None, card'[p] # None,
             \A c \in Admin : ~Tells(c, p)'
      PROVE  participant'[p].password = card'[p]
  <2>1. PersonStep(p)
    BY PersonStepHolds
  <2>2. CASE LeftAlone(p) /\ p \notin doubtful
    BY <1>0, <1>1, <2>2 DEF CardFits, LeftAlone
  <2>3. ASSUME NEW c \in Admin, Tells(c, p), admin[c].todo = {}, doubtful' = doubtful,
               card'[p] = admin[c].secret[p], participant'[p] = participant[p]
        PROVE  participant'[p].password = card'[p]
    BY <1>0, <1>1, <2>3 DEF TellOK, Tells
  <2>4. ASSUME NEW c \in Admin, admin[c].op \in {"tell", "stray"}, Hands(c, p),
               admin'[c].op = admin[c].op, Hands(c, p)', doubtful' = doubtful
        PROVE  FALSE
    <3>1. admin[c].op = "stray"
      BY <1>1, <2>4 DEF Tells, Hands
    <3>2. QED
      BY <1>0, <1>1, <2>4, <3>1 DEF TellOK, Hands
  <2>5. QED
    BY <1>1, <2>1, <2>2, <2>3, <2>4 DEF PersonStep
<1>2. ASSUME NEW p \in Participant, participant'[p] # None
      PROVE  participant'[p].password \in 1..passwords'
  <2>1. PersonStep(p)
    BY PersonStepHolds
  <2>2. participant[p] # None => participant[p].password \in 1..passwords
    BY <1>0 DEF PasswordsKnown
  <2>3. 1..passwords \subseteq 1..passwords'
    BY <1>0
  <2>4. \A c \in Admin : Hands(c, p) => admin[c].secret[p] \in 1..passwords
    BY <1>0 DEF Hands, SecretOK
  <2>5. passwords' = passwords + 1 => passwords + 1 \in 1..passwords'
    BY <1>0
  <2>6. participant'[p].password \in 1..passwords \cup 1..passwords'
    BY <1>2, <2>1, <2>2, <2>4, <2>5 DEF PersonStep, LeftAlone
  <2>7. QED
    BY <2>3, <2>6
<1>3. QED
  BY <1>1, <1>2 DEF CardFits, PasswordsKnown

LEMMA RosterHolds == RosterInv /\ [RosterNext]_rosterVars => RosterInv'
<1> SUFFICES ASSUME RosterInv, [RosterNext]_rosterVars
             PROVE  RosterInv'
  OBVIOUS
<1>1. SessionsOK'
  BY SessionsStepParticipants, SessionsStepSchedules DEF RosterNext
<1>2. /\ participant' \in [Participant -> PersonRow \cup {None}]
      /\ DOMAIN card' = Participant /\ passwords' \in Nat
  BY PeopleTyped
<1>3. /\ doubtful' \subseteq Participant /\ OneHand'
      /\ \A c \in Admin : (SecretOK(admin[c]) /\ ImportOK(admin[c]))'
  BY HandsStep
<1>4. \A c \in Admin : (TellOK(admin[c]))'
  BY TellStep
<1>5. CardFits' /\ PasswordsKnown'
  BY CardsStep
<1>6. RosterTyped'
  BY <1>1, <1>2, <1>3 DEF RosterTyped, SessionsOK
<1>7. \A c \in Admin : AdminOK(c)'
  BY <1>1, <1>3, <1>4 DEF AdminOK, SessionsOK
<1>8. QED
  BY <1>1, <1>3, <1>5, <1>6, <1>7 DEF RosterInv, SessionsOK

LEMMA RosterHoldsAlways == RosterSpec => []RosterInv
<1>1. RosterInit => RosterInv
  BY RosterBegins
<1>2. RosterInv /\ [RosterNext]_rosterVars => RosterInv'
  BY RosterHolds
<1>3. QED
  BY <1>1, <1>2, PTL DEF RosterSpec

\* What the invariant says of the properties.
LEMMA RosterInvImplies == RosterInv => CardOpens /\ ClosedStaysClosed /\ RosterTypeOK
<1> SUFFICES ASSUME RosterInv
             PROVE  CardOpens /\ ClosedStaysClosed /\ RosterTypeOK
  OBVIOUS
<1>1. RosterTyped
  BY DEF RosterInv
<1>2. CardOpens
  <2>1. ASSUME NEW p \in Existing(participant) \ (doubtful \cup Untold), card[p] # None
        PROVE  participant[p].password = card[p]
    <3>1. p \in Participant /\ participant[p] # None /\ p \notin doubtful
      BY <1>1, RowsExist DEF RosterTyped
    <3>2. \A c \in Admin : ~Tells(c, p)
      BY DEF Untold, Tells, At
    <3>3. QED
      BY <2>1, <3>1, <3>2 DEF RosterInv, CardFits
  <2>2. QED
    BY <2>1 DEF CardOpens
<1>3. ClosedStaysClosed
  BY DEF RosterInv, ShutStays, ClosedStaysClosed
<1>4. RosterTypeOK
  <2>1. \A p \in Existing(participant) : participant[p].password \in 1..passwords
    BY <1>1 DEF RosterInv, RosterTyped, PasswordsKnown, Existing
  <2>2. \A s \in Existing(schedule) : schedule[s].status \in {"draft", "published", "closed"}
    BY <1>1 DEF RosterTyped, SessionRow, Existing
  <2>3. \A e \in attempt \cup enrolled : schedule[e[1]] # None /\ participant[e[2]] # None
    <3>1. ASSUME NEW e \in attempt \cup enrolled
          PROVE  schedule[e[1]] # None /\ participant[e[2]] # None
      <4>1. e[1] \in Schedule /\ e[2] \in Participant /\ e = <<e[1], e[2]>>
        BY <1>1 DEF RosterTyped
      <4>2. QED
        BY <4>1 DEF RosterInv, ReferredStay
    <3>2. QED
      BY <3>1
  <2>4. doubtful \subseteq Participant /\ shut \subseteq Existing(schedule)
    BY <1>1 DEF RosterTyped, RosterInv, ShutStays, Existing
  <2>5. QED
    BY <2>1, <2>2, <2>3, <2>4 DEF RosterTypeOK
<1>5. QED
  BY <1>2, <1>3, <1>4

\* participants.ts: whatever requests that set passwords overlap, fail half way, or end between
\* their commit and their answer, the password last told to an administrator opens the account,
\* if the last request that set it was alone and has answered.
THEOREM CardsOpen == RosterSpec => []CardOpens
<1>1. RosterInv => CardOpens
  BY RosterInvImplies
<1>2. QED
  BY <1>1, RosterHoldsAlways, PTL

\* schedules.ts: a closed session is opened again only by a PATCH of its status or by a
\* publish that began before it was closed.
THEOREM ClosedSessionsStayClosed == RosterSpec => []ClosedStaysClosed
<1>1. RosterInv => ClosedStaysClosed
  BY RosterInvImplies
<1>2. QED
  BY <1>1, RosterHoldsAlways, PTL
--------------------------------------------------------------------------------
(* Banks, questions and structures of exams.                                 *)

\* A stimulus that was of the bank of the row once: it is still, or it is gone for good.
Bound(row) == row.stimulus # None => row.stimulus \notin unborn /\ stimulus[row.stimulus] \in {row.bank, None}

\* What an insert has prepared ...
InsertOK(r) ==
  r.op = "insert" =>
    \A row \in r.rows : /\ row \in QuestionRow /\ row.version = 1 /\ row.content \notin Faulty
                        /\ r.checked => Bound(row)

\* ... and what a PATCH has read and checked.
PatchesOK(r) ==
  r.op = "patch" =>
    /\ r.question \in Question /\ r.old \in QuestionRow /\ r.body \in Patch
    /\ Over(r.body, r.old).content \notin Faulty /\ Bound(Over(r.body, r.old))

BankTyped ==
  /\ bank \subseteq Bank /\ stimulus \in [Stimulus -> Bank \cup {None}]
  /\ question \in [Question -> QuestionRow \cup {None}]
  /\ stored \subseteq Question \X (1..MaxVersion) \X (Sent("content") \X Sent("scoring"))
  /\ DOMAIN author = Author

StimuliOK == \A s \in Stimulus : stimulus[s] # None => stimulus[s] \in bank /\ s \notin unborn

\* Rows refer to rows; a question nobody raced for has the newest of its versions.
QuestionOK(q) ==
  question[q] # None =>
    /\ question[q].bank \in bank /\ question[q].content \notin Faulty
    /\ question[q].stimulus # None => stimulus[question[q].stimulus] # None
    /\ q \notin unchecked => Bound(question[q])
    /\ Record(q, question[q]) \in stored
    /\ q \notin raced => \A x \in stored : x[1] = q => x[2] <= question[q].version

BankInv ==
  /\ BankTyped /\ StimuliOK /\ VersionsUnlessRaced
  /\ \A q \in Question : QuestionOK(q)
  /\ \A c \in Author : InsertOK(author[c]) /\ PatchesOK(author[c])

SectionRow == [exam : Exam, put : Nat, order : Nat, pick : Nat \cup {None}, questions : Seq(Question)]

SectionOK(s) == IsInjective(s.questions) /\ (s.pick = None \/ s.pick <= Len(s.questions))

\* What a PUT has checked before its transaction.
PutOK(r) ==
  r.op \in {"put", "replace"} =>
    /\ r.exam \in Exam /\ r.new \in Structure /\ NoDuplicates(r.new)
    /\ \A i \in DOMAIN r.new : r.new[i].pick # None => r.new[i].pick <= Len(r.new[i].questions)

\* What one PUT wrote is there as a whole or not at all.
AllOrNone(some) == \A w \in whole : w \subseteq some \/ w \cap some = {}

\* The rows that a PUT deletes are all there are, unless another has committed since.
ReplaceOK(r) ==
  r.op = "replace" =>
    /\ r.began \in Nat /\ r.began <= puts
    /\ \A s \in r.seen : s.exam = r.exam /\ s.put \in Nat /\ s.put <= puts
    /\ AllOrNone(r.seen)
    /\ r.began = puts => SectionsOf(r.exam) \subseteq r.seen

ExamTyped ==
  /\ exam \subseteq Exam /\ sections \subseteq SectionRow
  /\ puts \in Nat /\ DOMAIN author = Author

SectionsOK ==
  \A s \in sections : /\ s.exam \in exam /\ s.put <= puts /\ SectionOK(s)
                      /\ \A q \in Range(s.questions) : question[q] # None

\* Structures that were written are of one exam, ask nothing twice and are numbered.
WholeOK ==
  \A w \in whole : /\ \A s \in w : s.put \in Nat /\ s.put <= puts
                   /\ \A s, t \in w : /\ s.exam = t.exam
                                      /\ s # t => Range(s.questions) \cap Range(t.questions) = {}
                   /\ Numbered(w)

ExamInv ==
  /\ ExamTyped /\ SectionsOK /\ WholeOK /\ AllOrNone(sections) /\ OnePutUnlessMixed
  /\ \A c \in Author : PutOK(author[c]) /\ ReplaceOK(author[c])

\* What a PATCH sends over a row is a row again, of the same version.
LEMMA RowSent ==
  ASSUME NEW b \in Patch, NEW old \in QuestionRow
  PROVE  /\ Over(b, old) \in QuestionRow /\ Over(b, old).version = old.version
         /\ ~Touches(b) => Definition(Over(b, old)) = Definition(old)
<1> DEFINE f == Over(b, old)
<1>1. DOMAIN b \subseteq {"bank", "stimulus", "content", "scoring", "status"}
  BY AuthoringAssumption
<1>2. /\ "bank" \in DOMAIN b => b.bank \in Bank
      /\ "stimulus" \in DOMAIN b => b.stimulus \in Stimulus \cup {None}
  BY AuthoringAssumption
<1>3. /\ "content" \in DOMAIN b => b.content \in Sent("content")
      /\ "scoring" \in DOMAIN b => b.scoring \in Sent("scoring")
      /\ "status" \in DOMAIN b => b.status \in Sent("status")
  BY DEF Sent
<1>4. /\ DOMAIN old = {"bank", "stimulus", "content", "scoring", "status", "version"}
      /\ old.bank \in Bank /\ old.stimulus \in Stimulus \cup {None} /\ old.content \in Sent("content")
      /\ old.scoring \in Sent("scoring") /\ old.status \in Sent("status") \cup {"draft"}
      /\ old.version \in 1..MaxVersion
  BY DEF QuestionRow
<1>5. /\ f = [x \in {"bank", "stimulus", "content", "scoring", "status", "version"} |->
                IF x \in DOMAIN b THEN b[x] ELSE old[x]]
  <2>1. DOMAIN b \cup DOMAIN old = {"bank", "stimulus", "content", "scoring", "status", "version"}
    BY <1>1, <1>4
  <2>2. QED
    BY <2>1 DEF Over
<1>6. /\ f.bank \in Bank /\ f.stimulus \in Stimulus \cup {None} /\ f.content \in Sent("content")
      /\ f.scoring \in Sent("scoring") /\ f.status \in Sent("status") \cup {"draft"}
      /\ f.version = old.version
  BY <1>1, <1>2, <1>3, <1>4, <1>5
<1>7. f \in QuestionRow
  BY <1>4, <1>5, <1>6 DEF QuestionRow
<1>8. ~Touches(b) => f.content = old.content /\ f.scoring = old.scoring
  BY <1>4, <1>5 DEF Touches
<1>9. QED
  BY <1>6, <1>7, <1>8 DEF Definition

LEMMA RowCopied ==
  ASSUME NEW row \in QuestionRow
  PROVE  LET new == [row EXCEPT !.status = "draft", !.version = 1]
         IN /\ new \in QuestionRow /\ new.version = 1 /\ new.bank = row.bank
            /\ new.stimulus = row.stimulus /\ new.content = row.content
<1>1. 1 \in 1..MaxVersion
  BY AuthoringAssumption
<1>2. QED
  BY <1>1 DEF QuestionRow

LEMMA RowUnlinked ==
  ASSUME NEW row \in QuestionRow
  PROVE  LET new == [row EXCEPT !.stimulus = None]
         IN /\ new \in QuestionRow /\ new.stimulus = None /\ new.bank = row.bank
            /\ new.content = row.content /\ new.scoring = row.scoring /\ new.version = row.version
BY DEF QuestionRow

LEMMA BankBegins == AuthoringInit => BankInv
BY DEF AuthoringInit, BankInv, BankTyped, StimuliOK, VersionsUnlessRaced, QuestionOK, InsertOK, PatchesOK, Idle

\* Steps that write no row of a question.
LEMMA BankFrame ==
  ASSUME BankInv, UNCHANGED <<bank, stimulus, unborn, question, authored>>, DOMAIN author' = Author,
         \A c \in Author : \/ author'[c] = author[c]
                           \/ InsertOK(author'[c]) /\ PatchesOK(author'[c])
  PROVE  BankInv'
<1>1. BankTyped'
  BY DEF BankInv, BankTyped, authored
<1>2. StimuliOK' /\ VersionsUnlessRaced'
  BY DEF BankInv, StimuliOK, VersionsUnlessRaced, authored
<1>3. ASSUME NEW q \in Question
      PROVE  QuestionOK(q)'
  BY DEF BankInv, QuestionOK, Bound, authored, Record, Definition
<1>4. ASSUME NEW c \in Author
      PROVE  (InsertOK(author[c]) /\ PatchesOK(author[c]))'
  <2>1. InsertOK(author'[c]) /\ PatchesOK(author'[c])
    BY DEF BankInv
  <2>2. QED
    BY <2>1 DEF InsertOK, PatchesOK, Bound
<1>5. QED
  BY <1>1, <1>2, <1>3, <1>4 DEF BankInv

\* Stimuli stay where they are until they are gone for good.
LEMMA BoundStays ==
  ASSUME \A s \in Stimulus : s \notin unborn => s \notin unborn' /\ stimulus'[s] \in {stimulus[s], None},
         NEW row, row.stimulus \in Stimulus \cup {None}, Bound(row)
  PROVE  Bound(row)'
BY DEF Bound

\* Steps that take away rows and stimuli, or add banks and stimuli.
LEMMA BankRowsStep ==
  ASSUME BankInv, UNCHANGED <<author, authored>>, bank' \subseteq Bank,
         stimulus' \in [Stimulus -> Bank \cup {None}], StimuliOK',
         \A s \in Stimulus : s \notin unborn => s \notin unborn' /\ stimulus'[s] \in {stimulus[s], None},
         question' \in [Question -> QuestionRow \cup {None}],
         \A q \in Question : question'[q] # None =>
           /\ question[q] # None /\ question'[q].stimulus \in {question[q].stimulus, None}
           /\ question'[q].bank = question[q].bank /\ question'[q].content = question[q].content
           /\ question'[q].scoring = question[q].scoring /\ question'[q].version = question[q].version
           /\ question'[q].bank \in bank'
           /\ question'[q].stimulus # None => stimulus'[question'[q].stimulus] # None
  PROVE  BankInv'
<1>0. /\ question \in [Question -> QuestionRow \cup {None}]
      /\ \A q \in Question : QuestionOK(q)
      /\ \A c \in Author : InsertOK(author[c]) /\ PatchesOK(author[c])
  BY DEF BankInv, BankTyped
<1>1. BankTyped'
  BY DEF BankInv, BankTyped, authored
<1>2. VersionsUnlessRaced'
  BY DEF BankInv, VersionsUnlessRaced, authored
<1>3. ASSUME NEW q \in Question
      PROVE  QuestionOK(q)'
  <2> SUFFICES ASSUME question'[q] # None
               PROVE  QuestionOK(q)'
    BY DEF QuestionOK
  <2>1. /\ question[q] \in QuestionRow /\ question[q].content \notin Faulty
        /\ q \notin unchecked => Bound(question[q])
        /\ Record(q, question[q]) \in stored
        /\ q \notin raced => \A x \in stored : x[1] = q => x[2] <= question[q].version
    BY <1>0 DEF QuestionOK
  <2>2. question[q].stimulus \in Stimulus \cup {None}
    BY <2>1 DEF QuestionRow
  <2>3. q \notin unchecked => Bound(question[q])'
    <3>1. q \notin unchecked => (question[q].stimulus # None =>
             question[q].stimulus \notin unborn' /\ stimulus'[question[q].stimulus] \in {question[q].bank, None})
      BY <2>1, <2>2 DEF Bound
    <3>2. QED
      BY <3>1 DEF Bound
  <2>4. Record(q, question[q])' = Record(q, question[q])
    BY DEF Record, Definition
  <2>5. UNCHANGED <<stored, raced, unchecked>>
    BY DEF authored
  <2>6. QED
    BY <2>1, <2>3, <2>4, <2>5 DEF QuestionOK
<1>4. ASSUME NEW c \in Author
      PROVE  (InsertOK(author[c]) /\ PatchesOK(author[c]))'
  <2>1. InsertOK(author[c]) /\ PatchesOK(author[c])
    BY <1>0
  <2>2. InsertOK(author[c])'
    <3> SUFFICES ASSUME author[c].op = "insert", NEW row \in author[c].rows
                 PROVE  /\ row \in QuestionRow /\ row.version = 1 /\ row.content \notin Faulty
                        /\ author[c].checked => Bound(row)'
      BY DEF InsertOK
    <3>1. /\ row \in QuestionRow /\ row.version = 1 /\ row.content \notin Faulty
          /\ author[c].checked => Bound(row)
      BY <2>1 DEF InsertOK
    <3>2. row.stimulus \in Stimulus \cup {None}
      BY <3>1 DEF QuestionRow
    <3>3. QED
      BY <3>1, <3>2, BoundStays
  <2>3. PatchesOK(author[c])'
    <3> SUFFICES ASSUME author[c].op = "patch"
                 PROVE  PatchesOK(author[c])'
      BY DEF PatchesOK
    <3>1. /\ author[c].question \in Question /\ author[c].old \in QuestionRow /\ author[c].body \in Patch
          /\ Over(author[c].body, author[c].old).content \notin Faulty
          /\ Bound(Over(author[c].body, author[c].old))
      BY <2>1 DEF PatchesOK
    <3> DEFINE row == Over(author[c].body, author[c].old)
    <3>2. row \in QuestionRow
      BY <3>1, RowSent
    <3>3. row.stimulus \in Stimulus \cup {None}
      BY <3>2 DEF QuestionRow
    <3>4. Bound(row)
      BY <3>1
    <3> HIDE DEF row
    <3>5. Bound(row)'
      BY <3>3, <3>4, BoundStays DEF row
    <3>6. QED
      BY <3>1, <3>5 DEF PatchesOK, row
  <2>4. QED
    BY <2>2, <2>3
<1>5. QED
  BY <1>1, <1>2, <1>3, <1>4 DEF BankInv

LEMMA NoneIsNothing == None \notin Bank /\ None \notin Stimulus /\ None \notin QuestionRow
BY AuthoringAssumption

\* What is known of a question that there is.
LEMMA QuestionThere ==
  ASSUME BankInv, NEW q \in Question, question[q] # None
  PROVE  /\ question[q] \in QuestionRow /\ question[q].bank \in bank
         /\ question[q].stimulus \in Stimulus \cup {None}
         /\ question[q].stimulus # None => stimulus[question[q].stimulus] # None
<1>1. question[q] \in QuestionRow /\ QuestionOK(q)
  BY DEF BankInv, BankTyped
<1>2. question[q].stimulus \in Stimulus \cup {None}
  BY <1>1 DEF QuestionRow
<1>3. QED
  BY <1>1, <1>2 DEF QuestionOK

LEMMA CreateBankKeeps == BankInv /\ CreateBank => BankInv'
<1> SUFFICES ASSUME BankInv, CreateBank
             PROVE  BankInv'
  OBVIOUS
<1>1. PICK b \in Bank \cap unborn :
        /\ bank' = bank \cup {b} /\ unborn' = unborn \ {b}
        /\ UNCHANGED <<stimulus, question, exam, sections, author, authored, structured>>
  BY DEF CreateBank
<1>2. /\ bank \subseteq Bank /\ stimulus \in [Stimulus -> Bank \cup {None}]
      /\ question \in [Question -> QuestionRow \cup {None}] /\ StimuliOK
  BY DEF BankInv, BankTyped
<1>3. StimuliOK'
  BY <1>1, <1>2 DEF StimuliOK
<1>4. \A q \in Question : question[q] # None =>
        /\ question[q].bank \in bank
        /\ question[q].stimulus # None => stimulus[question[q].stimulus] # None
  BY QuestionThere
<1>5. QED
  BY <1>1, <1>2, <1>3, <1>4, BankRowsStep

LEMMA CreateStimulusKeeps == BankInv /\ CreateStimulus => BankInv'
<1> SUFFICES ASSUME BankInv, CreateStimulus
             PROVE  BankInv'
  OBVIOUS
<1>1. PICK s \in Stimulus \cap unborn, b \in bank :
        /\ stimulus' = [stimulus EXCEPT ![s] = b] /\ unborn' = unborn \ {s}
        /\ UNCHANGED <<bank, question, exam, sections, author, authored, structured>>
  BY DEF CreateStimulus
<1>2. /\ bank \subseteq Bank /\ stimulus \in [Stimulus -> Bank \cup {None}]
      /\ question \in [Question -> QuestionRow \cup {None}] /\ StimuliOK
  BY DEF BankInv, BankTyped
<1>3. \A t \in Stimulus : stimulus'[t] = IF t = s THEN b ELSE stimulus[t]
  BY <1>1, <1>2
<1>4. b # None /\ stimulus' \in [Stimulus -> Bank \cup {None}]
  BY <1>1, <1>2, NoneIsNothing
<1>5. StimuliOK'
  BY <1>1, <1>2, <1>3 DEF StimuliOK
<1>6. \A q \in Question : question[q] # None =>
        /\ question[q].bank \in bank /\ question[q].stimulus \in Stimulus \cup {None}
        /\ question[q].stimulus # None => stimulus[question[q].stimulus] # None
  BY QuestionThere
<1>7. \A q \in Question : question'[q] # None /\ question'[q].stimulus # None =>
        stimulus'[question'[q].stimulus] # None
  BY <1>1, <1>3, <1>4, <1>6
<1>8. QED
  BY <1>1, <1>2, <1>3, <1>4, <1>5, <1>6, <1>7, BankRowsStep

\* What is left of questions when stimuli are gone.
LEMMA UnlinkedRows ==
  ASSUME BankInv, NEW gone
  PROVE  \A q \in Question :
           LET row == Unlinked(gone)[q]
           IN IF question[q] = None THEN row = None
              ELSE /\ row \in QuestionRow /\ row.bank = question[q].bank /\ row.content = question[q].content
                   /\ row.scoring = question[q].scoring /\ row.version = question[q].version
                   /\ row.stimulus \in {question[q].stimulus, None} /\ row.stimulus \notin gone \ {None}
<1> TAKE q \in Question
<1>1. question[q] # None => question[q] \in QuestionRow
  BY QuestionThere
<1>2. Unlinked(gone)[q] = IF question[q] # None /\ question[q].stimulus \in gone
                          THEN [question[q] EXCEPT !.stimulus = None] ELSE question[q]
  BY DEF Unlinked
<1>3. CASE question[q] # None /\ question[q].stimulus \in gone
  BY <1>1, <1>2, <1>3, RowUnlinked
<1>4. CASE ~(question[q] # None /\ question[q].stimulus \in gone)
  BY <1>1, <1>2, <1>4
<1>5. QED
  BY <1>3, <1>4

LEMMA DeleteBankKeeps == BankInv /\ DeleteBank => BankInv'
<1> SUFFICES ASSUME BankInv, DeleteBank
             PROVE  BankInv'
  OBVIOUS
<1>1. PICK b \in bank :
        /\ bank' = bank \ {b}
        /\ stimulus' = [s \in Stimulus |-> IF s \in {t \in Stimulus : stimulus[t] = b} THEN None ELSE stimulus[s]]
        /\ question' = [q \in Question |-> IF q \in {x \in Existing(question) : question[x].bank = b} THEN None
                                           ELSE Unlinked({t \in Stimulus : stimulus[t] = b})[q]]
        /\ UNCHANGED <<unborn, exam, sections, author, authored, structured>>
  BY DEF DeleteBank
<1> DEFINE gone == {t \in Stimulus : stimulus[t] = b}
<1>2. /\ bank \subseteq Bank /\ stimulus \in [Stimulus -> Bank \cup {None}]
      /\ question \in [Question -> QuestionRow \cup {None}] /\ StimuliOK
  BY DEF BankInv, BankTyped
<1>3. \A s \in Stimulus : stimulus'[s] = IF s \in gone THEN None ELSE stimulus[s]
  BY <1>1
<1>4. \A q \in Question : question'[q] # None =>
        question[q] # None /\ question[q].bank # b /\ question'[q] = Unlinked(gone)[q]
  <2>1. \A q \in Question : Unlinked(gone)[q] # None => question[q] # None
    BY UnlinkedRows
  <2> HIDE DEF gone
  <2>2. DOMAIN question = Question
    BY <1>2
  <2>3. QED
    BY <1>1, <2>1, <2>2 DEF Existing, gone
<1>5. stimulus' \in [Stimulus -> Bank \cup {None}] /\ StimuliOK'
  BY <1>1, <1>2, <1>3 DEF StimuliOK
<1>6. question' \in [Question -> QuestionRow \cup {None}]
  <2>1. \A q \in Question : Unlinked(gone)[q] \in QuestionRow \cup {None}
    BY UnlinkedRows
  <2> HIDE DEF gone
  <2>2. QED
    BY <1>1, <2>1 DEF gone
<1>7. ASSUME NEW q \in Question, question'[q] # None
      PROVE  /\ question[q] # None /\ question'[q].stimulus \in {question[q].stimulus, None}
             /\ question'[q].bank = question[q].bank /\ question'[q].content = question[q].content
             /\ question'[q].scoring = question[q].scoring /\ question'[q].version = question[q].version
             /\ question'[q].bank \in bank'
             /\ question'[q].stimulus # None => stimulus'[question'[q].stimulus] # None
  <2>1. question[q] # None /\ question[q].bank # b /\ question'[q] = Unlinked(gone)[q]
    BY <1>4, <1>7
  <2>2. /\ question[q].bank \in bank /\ question[q].stimulus \in Stimulus \cup {None}
        /\ question[q].stimulus # None => stimulus[question[q].stimulus] # None
    BY <2>1, QuestionThere
  <2> HIDE DEF gone
  <2>3. /\ question'[q].bank = question[q].bank /\ question'[q].content = question[q].content
        /\ question'[q].scoring = question[q].scoring /\ question'[q].version = question[q].version
        /\ question'[q].stimulus \in {question[q].stimulus, None} /\ question'[q].stimulus \notin gone \ {None}
    BY <2>1, UnlinkedRows
  <2>4. QED
    BY <1>1, <1>3, <2>1, <2>2, <2>3
<1>8. \A s \in Stimulus : s \notin unborn => s \notin unborn' /\ stimulus'[s] \in {stimulus[s], None}
  BY <1>1, <1>3
<1>9. UNCHANGED <<author, authored>> /\ bank' \subseteq Bank
  BY <1>1, <1>2
<1>10. QED
  BY <1>5, <1>6, <1>7, <1>8, <1>9, BankRowsStep

LEMMA DeleteStimulusKeeps == BankInv /\ DeleteStimulus => BankInv'
<1> SUFFICES ASSUME BankInv, DeleteStimulus
             PROVE  BankInv'
  OBVIOUS
<1>1. PICK s \in Existing(stimulus) :
        /\ stimulus' = [stimulus EXCEPT ![s] = None]
        /\ question' = Unlinked({s})
        /\ UNCHANGED <<bank, unborn, exam, sections, author, authored, structured>>
  BY DEF DeleteStimulus
<1>2. /\ bank \subseteq Bank /\ stimulus \in [Stimulus -> Bank \cup {None}]
      /\ question \in [Question -> QuestionRow \cup {None}] /\ StimuliOK
  BY DEF BankInv, BankTyped
<1>3. \A t \in Stimulus : stimulus'[t] = IF t = s THEN None ELSE stimulus[t]
  BY <1>1, <1>2
<1>4. stimulus' \in [Stimulus -> Bank \cup {None}] /\ StimuliOK'
  BY <1>1, <1>2, <1>3 DEF StimuliOK
<1>5. question' \in [Question -> QuestionRow \cup {None}]
  <2>1. \A q \in Question : Unlinked({s})[q] \in QuestionRow \cup {None}
    BY UnlinkedRows
  <2>2. Unlinked({s}) = [q \in Question |-> Unlinked({s})[q]]
    BY DEF Unlinked
  <2>3. QED
    BY <1>1, <2>1, <2>2
<1>6. ASSUME NEW q \in Question, question'[q] # None
      PROVE  /\ question[q] # None /\ question'[q].stimulus \in {question[q].stimulus, None}
             /\ question'[q].bank = question[q].bank /\ question'[q].content = question[q].content
             /\ question'[q].scoring = question[q].scoring /\ question'[q].version = question[q].version
             /\ question'[q].bank \in bank'
             /\ question'[q].stimulus # None => stimulus'[question'[q].stimulus] # None
  <2>1. /\ question[q] # None
        /\ question'[q].bank = question[q].bank /\ question'[q].content = question[q].content
        /\ question'[q].scoring = question[q].scoring /\ question'[q].version = question[q].version
        /\ question'[q].stimulus \in {question[q].stimulus, None} /\ question'[q].stimulus \notin {s} \ {None}
    BY <1>1, <1>6, UnlinkedRows
  <2>2. /\ question[q].bank \in bank /\ question[q].stimulus \in Stimulus \cup {None}
        /\ question[q].stimulus # None => stimulus[question[q].stimulus] # None
    BY <2>1, QuestionThere
  <2>3. QED
    BY <1>1, <1>3, <2>1, <2>2
<1>7. \A t \in Stimulus : t \notin unborn => t \notin unborn' /\ stimulus'[t] \in {stimulus[t], None}
  BY <1>1, <1>3
<1>8. UNCHANGED <<author, authored>> /\ bank' \subseteq Bank
  BY <1>1, <1>2
<1>9. QED
  BY <1>4, <1>5, <1>6, <1>7, <1>8, BankRowsStep

LEMMA DeleteQuestionKeeps == BankInv /\ DeleteQuestion => BankInv'
<1> SUFFICES ASSUME BankInv, DeleteQuestion
             PROVE  BankInv'
  OBVIOUS
<1>1. PICK x \in Existing(question) :
        /\ question' = [question EXCEPT ![x] = None]
        /\ UNCHANGED <<bank, stimulus, unborn, exam, sections, author, authored, structured>>
  BY DEF DeleteQuestion
<1>2. /\ bank \subseteq Bank /\ stimulus \in [Stimulus -> Bank \cup {None}]
      /\ question \in [Question -> QuestionRow \cup {None}] /\ StimuliOK
  BY DEF BankInv, BankTyped
<1>3. \A q \in Question : question'[q] = IF q = x THEN None ELSE question[q]
  BY <1>1, <1>2
<1>4. StimuliOK' /\ question' \in [Question -> QuestionRow \cup {None}]
  BY <1>1, <1>2 DEF StimuliOK
<1>5. \A q \in Question : question[q] # None =>
        /\ question[q].bank \in bank
        /\ question[q].stimulus # None => stimulus[question[q].stimulus] # None
  BY QuestionThere
<1>6. QED
  BY <1>1, <1>2, <1>3, <1>4, <1>5, BankRowsStep

\* A row whose stimulus is looked up is bound.
LEMMA LookedUp ==
  ASSUME BankInv, NEW row \in QuestionRow, StimulusInBank(row.stimulus, row.bank)
  PROVE  Bound(row)
<1>1. row.bank \in Bank /\ row.stimulus \in Stimulus \cup {None}
  BY DEF QuestionRow
<1>2. StimuliOK
  BY DEF BankInv
<1>3. QED
  BY <1>1, <1>2, NoneIsNothing DEF StimulusInBank, Bound, StimuliOK

LEMMA BeginInsertKeeps == BankInv /\ BeginInsert => BankInv'
<1> SUFFICES ASSUME BankInv, BeginInsert
             PROVE  BankInv'
  OBVIOUS
<1>0. /\ UNCHANGED <<bank, stimulus, unborn, question, authored>>
      /\ \A row \in NewQuestion : row \in QuestionRow /\ row.version = 1
      /\ DOMAIN author = Author
  BY AuthoringAssumption DEF BeginInsert, tables, BankInv, BankTyped
<1>1. PICK c \in Author :
        \/ \E row \in NewQuestion :
             RowOK(row) /\ author' = [author EXCEPT ![c] = [op |-> "insert", rows |-> {row}, checked |-> TRUE]]
        \/ \E q \in Existing(question) :
             author' = [author EXCEPT ![c] = [op |-> "insert", checked |-> q \notin unchecked,
                                              rows |-> {[question[q] EXCEPT !.status = "draft", !.version = 1]}]]
        \/ \E rows \in SUBSET NewQuestion :
             /\ \A row \in rows : row.content \notin Faulty
             /\ author' = [author EXCEPT ![c] = [op |-> "insert", rows |-> rows, checked |-> FALSE]]
  BY DEF BeginInsert
<1> DEFINE Prepared(rows, checked) ==
      /\ checked \in BOOLEAN
      /\ author' = [author EXCEPT ![c] = [op |-> "insert", rows |-> rows, checked |-> checked]]
      /\ \A row \in rows : /\ row \in QuestionRow /\ row.version = 1 /\ row.content \notin Faulty
                           /\ checked => Bound(row)
<1>2. \E rows, checked : Prepared(rows, checked)
  <2>1. ASSUME NEW row \in NewQuestion, RowOK(row),
               author' = [author EXCEPT ![c] = [op |-> "insert", rows |-> {row}, checked |-> TRUE]]
        PROVE  Prepared({row}, TRUE)
    BY <1>0, <2>1, LookedUp DEF RowOK
  <2>2. ASSUME NEW q \in Existing(question),
               author' = [author EXCEPT ![c] = [op |-> "insert", checked |-> q \notin unchecked,
                                                rows |-> {[question[q] EXCEPT !.status = "draft", !.version = 1]}]]
        PROVE  Prepared({[question[q] EXCEPT !.status = "draft", !.version = 1]}, q \notin unchecked)
    <3>1. q \in Question /\ question[q] # None
      BY DEF BankInv, BankTyped, Existing
    <3>2. /\ question[q] \in QuestionRow /\ question[q].content \notin Faulty
          /\ q \notin unchecked => Bound(question[q])
      BY <3>1, QuestionThere DEF BankInv, QuestionOK
    <3> DEFINE row == [question[q] EXCEPT !.status = "draft", !.version = 1]
    <3>3. /\ row \in QuestionRow /\ row.version = 1 /\ row.bank = question[q].bank
          /\ row.stimulus = question[q].stimulus /\ row.content = question[q].content
      BY <3>2, RowCopied
    <3> HIDE DEF row
    <3>4. q \notin unchecked => Bound(row)
      BY <3>2, <3>3 DEF Bound
    <3>5. author' = [author EXCEPT ![c] = [op |-> "insert", rows |-> {row}, checked |-> q \notin unchecked]]
      BY <2>2 DEF row
    <3>6. Prepared({row}, q \notin unchecked)
      BY <3>2, <3>3, <3>4, <3>5
    <3>7. QED
      BY <3>6 DEF row
  <2>3. ASSUME NEW rows \in SUBSET NewQuestion, \A row \in rows : row.content \notin Faulty,
               author' = [author EXCEPT ![c] = [op |-> "insert", rows |-> rows, checked |-> FALSE]]
        PROVE  Prepared(rows, FALSE)
    BY <1>0, <2>3
  <2> HIDE DEF Prepared
  <2>4. QED
    BY <1>1, <2>1, <2>2, <2>3
<1>3. PICK rows, checked : Prepared(rows, checked)
  BY <1>2
<1>4. /\ author'[c] = [op |-> "insert", rows |-> rows, checked |-> checked]
      /\ \A d \in Author \ {c} : author'[d] = author[d]
      /\ DOMAIN author' = Author
  BY <1>0, <1>3
<1>5. InsertOK(author'[c]) /\ PatchesOK(author'[c])
  BY <1>3, <1>4 DEF InsertOK, PatchesOK
<1>6. QED
  BY <1>0, <1>4, <1>5, BankFrame

LEMMA BeginPatchKeeps == BankInv /\ BeginPatch => BankInv'
<1> SUFFICES ASSUME BankInv, BeginPatch
             PROVE  BankInv'
  OBVIOUS
<1>0. UNCHANGED <<bank, stimulus, unborn, question, authored>> /\ DOMAIN author = Author
  BY DEF BeginPatch, tables, BankInv, BankTyped
<1>1. PICK c \in Author, q \in Existing(question), b \in Patch :
        /\ PatchOK(question[q], b)
        /\ author' = [author EXCEPT ![c] = [op |-> "patch", question |-> q, old |-> question[q], body |-> b]]
  BY DEF BeginPatch
<1>2. q \in Question /\ question[q] # None
  BY <1>1 DEF BankInv, BankTyped, Existing
<1>3. question[q] \in QuestionRow
  BY <1>2, QuestionThere
<1> DEFINE row == Over(b, question[q])
<1>4. row \in QuestionRow /\ row.content \notin Faulty /\ StimulusInBank(row.stimulus, row.bank)
  BY <1>1, <1>3, RowSent DEF PatchOK
<1> HIDE DEF row
<1>5. Bound(row)
  BY <1>4, LookedUp
<1>6. /\ author'[c] = [op |-> "patch", question |-> q, old |-> question[q], body |-> b]
      /\ \A d \in Author \ {c} : author'[d] = author[d]
      /\ DOMAIN author' = Author
  BY <1>0, <1>1
<1>7. InsertOK(author'[c]) /\ PatchesOK(author'[c])
  BY <1>1, <1>2, <1>3, <1>4, <1>5, <1>6 DEF InsertOK, PatchesOK, row
<1>8. QED
  BY <1>0, <1>6, <1>7, BankFrame

LEMMA OthersKeepBanks == BankInv /\ (ExamNext({}) \/ AuthorDies) => BankInv'
<1> SUFFICES ASSUME BankInv, ExamNext({}) \/ AuthorDies
             PROVE  BankInv'
  OBVIOUS
<1>0. DOMAIN author = Author
  BY DEF BankInv, BankTyped
<1>1. UNCHANGED <<bank, stimulus, unborn, question, authored>>
  <2>1. CASE BeginPut
    BY <2>1 DEF BeginPut, tables
  <2>2. CASE DeleteSections
    BY <2>2 DEF DeleteSections, tables
  <2>3. CASE CommitPut
    BY <2>3 DEF CommitPut
  <2>4. CASE CreateExam
    BY <2>4 DEF CreateExam
  <2>5. CASE DeleteExam({})
    BY <2>5 DEF DeleteExam
  <2>6. CASE AuthorDies
    BY <2>6 DEF AuthorDies, tables
  <2>7. QED
    BY <2>1, <2>2, <2>3, <2>4, <2>5, <2>6 DEF ExamNext
<1> DEFINE Sets(r) == r.op \in {"put", "replace", "idle"} /\ \E c \in Author : author' = [author EXCEPT ![c] = r]
<1>2. author' = author \/ \E r : Sets(r)
  <2>1. ASSUME BeginPut
        PROVE  \E r : Sets(r)
    <3>1. PICK c \in Author, e \in exam, structure \in Structure :
            author' = [author EXCEPT ![c] = [op |-> "put", exam |-> e, new |-> structure]]
      BY <2>1 DEF BeginPut
    <3>2. Sets([op |-> "put", exam |-> e, new |-> structure])
      BY <3>1
    <3> HIDE DEF Sets
    <3>3. QED
      BY <3>2
  <2>2. ASSUME DeleteSections
        PROVE  \E r : Sets(r)
    <3>1. PICK c \in Author :
            author' = [author EXCEPT ![c] = [op |-> "replace", exam |-> @.exam, new |-> @.new,
                                             seen |-> Replaced(@.exam), began |-> puts]]
      BY <2>2 DEF DeleteSections
    <3>2. Sets([op |-> "replace", exam |-> author[c].exam, new |-> author[c].new,
                seen |-> Replaced(author[c].exam), began |-> puts])
      BY <3>1
    <3> HIDE DEF Sets
    <3>3. QED
      BY <3>2
  <2>3. (CommitPut \/ AuthorDies) => Sets(Idle)
    BY DEF CommitPut, AuthorDies, Done, Idle
  <2>4. (CreateExam \/ DeleteExam({})) => author' = author
    BY DEF CreateExam, DeleteExam
  <2> HIDE DEF Sets
  <2>5. QED
    BY <2>1, <2>2, <2>3, <2>4 DEF ExamNext
<1>3. DOMAIN author' = Author
  BY <1>0, <1>2
<1>4. \A c \in Author : \/ author'[c] = author[c]
                        \/ author'[c].op \in {"put", "replace", "idle"}
  BY <1>0, <1>2
<1>5. \A c \in Author : \/ author'[c] = author[c]
                        \/ InsertOK(author'[c]) /\ PatchesOK(author'[c])
  BY <1>4 DEF InsertOK, PatchesOK
<1>6. QED
  BY <1>1, <1>3, <1>5, BankFrame

\* No question goes away.
RowsStay == \A q \in Question : question[q] # None => question'[q] # None

\* The request is over: what others have prepared stands.
LEMMA OthersStand ==
  ASSUME BankInv, UNCHANGED <<stimulus, unborn>>, NEW c \in Author, Done(c)
  PROVE  DOMAIN author' = Author /\ \A d \in Author : (InsertOK(author[d]) /\ PatchesOK(author[d]))'
<1>1. DOMAIN author = Author /\ \A d \in Author : InsertOK(author[d]) /\ PatchesOK(author[d])
  BY DEF BankInv, BankTyped
<1>2. DOMAIN author' = Author /\ \A d \in Author : author'[d] = IF d = c THEN Idle ELSE author[d]
  BY <1>1 DEF Done
<1>3. ASSUME NEW d \in Author
      PROVE  (InsertOK(author[d]) /\ PatchesOK(author[d]))'
  <2>1. CASE d = c
    BY <1>2, <2>1 DEF InsertOK, PatchesOK, Idle
  <2>2. CASE d # c
    <3>1. author'[d] = author[d] /\ InsertOK(author[d]) /\ PatchesOK(author[d])
      BY <1>1, <1>2, <2>2
    <3>2. QED
      BY <3>1 DEF InsertOK, PatchesOK, Bound
  <2>3. QED
    BY <2>1, <2>2
<1>4. QED
  BY <1>2, <1>3

LEMMA NothingDone ==
  ASSUME BankInv, UNCHANGED <<bank, stimulus, unborn, question, authored>>, NEW c \in Author, Done(c)
  PROVE  BankInv'
<1>1. DOMAIN author = Author
  BY DEF BankInv, BankTyped
<1>2. DOMAIN author' = Author /\ \A d \in Author : author'[d] = IF d = c THEN Idle ELSE author[d]
  BY <1>1 DEF Done
<1>3. InsertOK(Idle) /\ PatchesOK(Idle)
  BY DEF InsertOK, PatchesOK, Idle
<1>4. QED
  BY <1>2, <1>3, BankFrame

\* Questions get ids that were never used.
LEMMA EndInsertKeeps == BankInv /\ EndInsert => BankInv' /\ RowsStay
<1> SUFFICES ASSUME BankInv, EndInsert
             PROVE  BankInv' /\ RowsStay
  OBVIOUS
<1>1. PICK c \in Author :
        /\ At(author, c, "insert")
        /\ \/ UNCHANGED <<question, authored>>
           \/ /\ \A row \in author[c].rows : row.bank \in bank /\ (row.stimulus = None \/ stimulus[row.stimulus] # None)
              /\ \E id \in [author[c].rows -> Question \ Spent] :
                   /\ IsInjective(id)
                   /\ question' = [q \in Question |-> IF q \in Range(id) THEN CHOOSE row \in author[c].rows : id[row] = q
                                                      ELSE question[q]]
                   /\ stored' = stored \cup {Record(id[row], row) : row \in author[c].rows}
                   /\ unchecked' = unchecked \cup (IF author[c].checked THEN {} ELSE Range(id))
                   /\ UNCHANGED raced
        /\ Done(c)
        /\ UNCHANGED <<bank, stimulus, unborn, exam, sections, structured>>
  BY DEF EndInsert
<1>2. CASE UNCHANGED <<question, authored>>
  BY <1>1, <1>2, NothingDone DEF RowsStay
<1>3. ASSUME \A row \in author[c].rows : row.bank \in bank /\ (row.stimulus = None \/ stimulus[row.stimulus] # None),
             NEW id \in [author[c].rows -> Question \ Spent], IsInjective(id),
             question' = [q \in Question |-> IF q \in Range(id) THEN CHOOSE row \in author[c].rows : id[row] = q
                                             ELSE question[q]],
             stored' = stored \cup {Record(id[row], row) : row \in author[c].rows},
             unchecked' = unchecked \cup (IF author[c].checked THEN {} ELSE Range(id)),
             UNCHANGED raced
      PROVE  BankInv' /\ RowsStay
  <2> DEFINE rows == author[c].rows
  <2>1. \A row \in rows : /\ row \in QuestionRow /\ row.version = 1 /\ row.content \notin Faulty
                          /\ author[c].checked => Bound(row)
    BY <1>1 DEF BankInv, InsertOK, At
  <2>2. \A row \in rows : row.bank \in bank /\ (row.stimulus # None => stimulus[row.stimulus] # None)
    BY <1>3
  <2>3. \A row, other \in rows : id[row] = id[other] => row = other
    BY <1>3 DEF IsInjective
  <2>4. \A q : q \in Range(id) <=> \E row \in rows : id[row] = q
    BY <1>3 DEF Range
  <2>5. \A row \in rows : id[row] \in Question /\ id[row] \notin Spent
    BY <1>3
  <2>6. \A row \in rows : question'[id[row]] = row
    BY <1>3, <2>3, <2>4, <2>5
  <2>7. \A q \in Question \ Range(id) : question'[q] = question[q]
    BY <1>3
  <2>8. \A x \in stored' : x \in stored \/ \E row \in rows : x = Record(id[row], row)
    BY <1>3
  <2>9. \A row \in rows : Record(id[row], row) \in stored'
    BY <1>3
  <2>10. \A x \in stored : x[1] \in Spent /\ x \in stored'
    BY <1>3 DEF Spent
  <2>11. UNCHANGED <<bank, stimulus, unborn, raced>>
    BY <1>1, <1>3
  <2>12. \A q \in Range(id) : q \notin unchecked' => author[c].checked
    BY <1>3
  <2>13. \A q : q \notin unchecked' => q \notin unchecked
    BY <1>3
  <2>14. \A q, row : /\ Record(q, row)[1] = q /\ Record(q, row)[2] = row.version
                     /\ Record(q, row)[3] = Definition(row)
    BY DEF Record
  <2>15. DOMAIN author' = Author /\ \A d \in Author : (InsertOK(author[d]) /\ PatchesOK(author[d]))'
    BY <1>1, <2>11, OthersStand
  <2>16. question' = [q \in Question |-> question'[q]]
    BY <1>3
  <2> HIDE DEF rows
  <2>17. BankTyped'
    <3>1. \A row \in rows : Record(id[row], row) \in Question \X (1..MaxVersion) \X (Sent("content") \X Sent("scoring"))
      <4>1. \A row \in rows : /\ row.version \in 1..MaxVersion /\ row.content \in Sent("content")
                              /\ row.scoring \in Sent("scoring")
        BY <2>1 DEF QuestionRow
      <4>2. QED
        BY <4>1, <2>5 DEF Record, Definition
    <3>2. \A q \in Question : question'[q] \in QuestionRow \cup {None}
      BY <2>1, <2>4, <2>6, <2>7 DEF BankInv, BankTyped
    <3>3. /\ bank \subseteq Bank /\ stimulus \in [Stimulus -> Bank \cup {None}]
          /\ stored \subseteq Question \X (1..MaxVersion) \X (Sent("content") \X Sent("scoring"))
      BY DEF BankInv, BankTyped
    <3>4. question' \in [Question -> QuestionRow \cup {None}]
      BY <2>16, <3>2
    <3>5. stored' \subseteq Question \X (1..MaxVersion) \X (Sent("content") \X Sent("scoring"))
      BY <2>8, <3>1, <3>3
    <3>6. QED
      BY <2>11, <2>15, <3>3, <3>4, <3>5 DEF BankTyped
  <2>18. StimuliOK'
    BY <2>11 DEF BankInv, StimuliOK
  <2>19. VersionsUnlessRaced'
    <3> SUFFICES ASSUME NEW x \in stored', NEW y \in stored', x[1] = y[1], x[2] = y[2], x[1] \notin raced'
                 PROVE  x[3] = y[3]
      BY DEF VersionsUnlessRaced
    <3>1. CASE x \in stored /\ y \in stored
      BY <2>11, <3>1 DEF BankInv, VersionsUnlessRaced
    <3>2. CASE \E row \in rows : x = Record(id[row], row)
      BY <2>3, <2>5, <2>8, <2>10, <2>14, <3>2
    <3>3. CASE \E row \in rows : y = Record(id[row], row)
      BY <2>3, <2>5, <2>8, <2>10, <2>14, <3>3
    <3>4. QED
      BY <2>8, <3>1, <3>2, <3>3
  <2>20. ASSUME NEW q \in Question, question'[q] # None
         PROVE  QuestionOK(q)'
    <3>1. CASE q \in Range(id)
      <4>1. PICK row \in rows : id[row] = q
        BY <2>4, <3>1
      <4>2. question'[q] = row
        BY <2>6, <4>1
      <4>3. row.version \in 1..MaxVersion
        BY <2>1 DEF QuestionRow
      <4>4. \A x \in stored' : x[1] = q => x[2] <= row.version
        BY <2>3, <2>5, <2>8, <2>10, <2>14, <4>1, <4>3
      <4>5. (q \notin unchecked' => Bound(row)) /\ Record(q, row) \in stored'
        BY <2>1, <2>9, <2>12, <3>1, <4>1
      <4>6. q \notin unchecked' => Bound(row)'
        BY <2>11, <4>5 DEF Bound
      <4>7. row.bank \in bank' /\ row.content \notin Faulty /\ (row.stimulus # None => stimulus'[row.stimulus] # None)
        BY <2>1, <2>2, <2>11
      <4>8. Record(q, question[q])' = Record(q, row)
        BY <4>2 DEF Record, Definition
      <4>9. QED
        BY <4>2, <4>4, <4>5, <4>6, <4>7, <4>8 DEF QuestionOK
    <3>2. CASE q \notin Range(id)
      <4>1. question'[q] = question[q] /\ QuestionOK(q)
        BY <2>7, <3>2 DEF BankInv
      <4>2. \A x \in stored' : x[1] = q => x \in stored
        BY <2>4, <2>8, <2>14, <3>2
      <4>3. Record(q, question[q])' = Record(q, question[q])
        BY <4>1 DEF Record, Definition
      <4>4. q \notin unchecked' => Bound(question[q])'
        BY <2>11, <2>13, <2>20, <4>1 DEF QuestionOK, Bound
      <4>5. QED
        BY <2>10, <2>11, <2>20, <4>1, <4>2, <4>3, <4>4 DEF QuestionOK
    <3>3. QED
      BY <3>1, <3>2
  <2>21. \A q \in Question : QuestionOK(q)'
    BY <2>20 DEF QuestionOK
  <2>22. RowsStay
    BY <2>1, <2>4, <2>6, <2>7, NoneIsNothing DEF RowsStay
  <2>23. QED
    BY <2>15, <2>17, <2>18, <2>19, <2>21, <2>22 DEF BankInv
<1>4. QED
  BY <1>1, <1>2, <1>3

\* A request that counts as no change wrote no other definition.
LEMMA UnchangedIsSame ==
  ASSUME NEW b \in Patch, NEW old \in QuestionRow, FALSE \in Changed(old, b)
  PROVE  Definition(Over(b, old)) = Definition(old)
BY RowSent DEF Changed

\* A row is written over: it has a new version, or the definition it had, or it is raced.
LEMMA RowRewritten ==
  ASSUME BankInv, UNCHANGED <<bank, stimulus, unborn>>, NEW c \in Author, Done(c),
         NEW q \in Question, question[q] # None,
         NEW row \in QuestionRow, row.bank \in bank, row.content \notin Faulty, Bound(row),
         row.stimulus # None => stimulus[row.stimulus] # None,
         question' = [question EXCEPT ![q] = row], stored' = stored \cup {Record(q, row)},
         raced \subseteq raced', raced' \subseteq raced \cup {q}, unchecked' = unchecked \ {q},
         q \notin raced' => \/ row.version > question[q].version
                            \/ row.version = question[q].version /\ Definition(row) = Definition(question[q])
  PROVE  BankInv' /\ RowsStay
<1>1. /\ bank \subseteq Bank /\ stimulus \in [Stimulus -> Bank \cup {None}]
      /\ question \in [Question -> QuestionRow \cup {None}]
      /\ stored \subseteq Question \X (1..MaxVersion) \X (Sent("content") \X Sent("scoring"))
      /\ VersionsUnlessRaced /\ \A p \in Question : QuestionOK(p)
  BY DEF BankInv, BankTyped
<1>2. row # None /\ row.version \in 1..MaxVersion /\ row.content \in Sent("content") /\ row.scoring \in Sent("scoring")
  BY NoneIsNothing DEF QuestionRow
<1>3. question'[q] = row /\ \A p \in Question \ {q} : question'[p] = question[p]
  BY <1>1
<1>4. \A p, r : Record(p, r)[1] = p /\ Record(p, r)[2] = r.version /\ Record(p, r)[3] = Definition(r)
  BY DEF Record
<1>5. question[q] \in QuestionRow /\ question[q].version \in 1..MaxVersion
  BY <1>1 DEF QuestionRow
<1>6. /\ Record(q, question[q]) \in stored
      /\ q \notin raced => \A x \in stored : x[1] = q => x[2] <= question[q].version
  BY <1>1 DEF QuestionOK
<1>7. \A x \in stored : x[2] \in 1..MaxVersion
  BY <1>1
<1>8. DOMAIN author' = Author /\ \A d \in Author : (InsertOK(author[d]) /\ PatchesOK(author[d]))'
  BY OthersStand
<1>9. BankTyped'
  <2>1. Record(q, row) \in Question \X (1..MaxVersion) \X (Sent("content") \X Sent("scoring"))
    BY <1>2 DEF Record, Definition
  <2>2. question' \in [Question -> QuestionRow \cup {None}]
    BY <1>1
  <2>3. QED
    BY <1>1, <1>8, <2>1, <2>2 DEF BankTyped
<1>10. StimuliOK'
  BY DEF BankInv, StimuliOK
<1>11. VersionsUnlessRaced'
  <2> SUFFICES ASSUME NEW x \in stored', NEW y \in stored', x[1] = y[1], x[2] = y[2], x[1] \notin raced'
               PROVE  x[3] = y[3]
    BY DEF VersionsUnlessRaced
  <2>1. x[1] \notin raced
    OBVIOUS
  <2>2. ASSUME NEW z \in stored, z[1] = q, z[2] = row.version, q \notin raced'
        PROVE  z[3] = Definition(row)
    <3>1. z[2] <= question[q].version
      BY <1>6, <2>2
    <3>2. row.version = question[q].version /\ Definition(row) = Definition(question[q])
      BY <1>2, <1>5, <1>7, <2>2, <3>1
    <3>3. z[3] = Definition(question[q])
      BY <1>1, <1>4, <1>6, <2>2, <3>2 DEF VersionsUnlessRaced
    <3>4. QED
      BY <3>2, <3>3
  <2>3. CASE x \in stored /\ y \in stored
    BY <1>1, <2>1, <2>3 DEF VersionsUnlessRaced
  <2>4. CASE x = Record(q, row)
    BY <1>4, <2>2, <2>4
  <2>5. CASE y = Record(q, row)
    BY <1>4, <2>2, <2>5
  <2>6. QED
    BY <2>3, <2>4, <2>5
<1>12. ASSUME NEW p \in Question, question'[p] # None
       PROVE  QuestionOK(p)'
  <2>1. CASE p = q
    <3>1. Record(p, question[p])' = Record(q, row)
      BY <1>3, <2>1 DEF Record, Definition
    <3>2. Bound(row)'
      BY DEF Bound
    <3>3. ASSUME p \notin raced', NEW x \in stored', x[1] = p
          PROVE  x[2] <= row.version
      <4>1. CASE x = Record(q, row)
        BY <1>2, <1>4, <4>1
      <4>2. CASE x \in stored
        BY <1>2, <1>5, <1>6, <1>7, <2>1, <3>3, <4>2
      <4>3. QED
        BY <4>1, <4>2
    <3>4. QED
      BY <1>3, <2>1, <3>1, <3>2, <3>3 DEF QuestionOK
  <2>2. CASE p # q
    <3>1. question'[p] = question[p] /\ QuestionOK(p)
      BY <1>1, <1>3, <2>2
    <3>2. \A x \in stored' : x[1] = p => x \in stored
      BY <1>4, <2>2
    <3>3. Record(p, question[p])' = Record(p, question[p])
      BY <3>1 DEF Record, Definition
    <3>4. p \notin unchecked' => Bound(question[p])'
      BY <1>12, <2>2, <3>1 DEF QuestionOK, Bound
    <3>5. QED
      BY <1>12, <3>1, <3>2, <3>3, <3>4 DEF QuestionOK
  <2>3. QED
    BY <2>1, <2>2
<1>13. \A p \in Question : QuestionOK(p)'
  BY <1>12 DEF QuestionOK
<1>14. RowsStay
  BY <1>2, <1>3 DEF RowsStay
<1>15. QED
  BY <1>8, <1>9, <1>10, <1>11, <1>13, <1>14 DEF BankInv

LEMMA EndPatchKeeps == BankInv /\ EndPatch => BankInv' /\ RowsStay
<1> SUFFICES ASSUME BankInv, EndPatch
             PROVE  BankInv' /\ RowsStay /\ RowsStay
  OBVIOUS
<1> DEFINE Patched(r) == Over(r.body, r.old)
           Written(r, changed) ==
             [Patched(r) EXCEPT !.version = IF changed THEN @ + 1 ELSE @,
                                !.status = IF "status" \in DOMAIN r.body THEN @ ELSE question[r.question].status]
<1>1. PICK c \in Author :
        /\ At(author, c, "patch")
        /\ \/ UNCHANGED <<question, authored>>
           \/ /\ question[author[c].question] # None /\ Patched(author[c]).bank \in bank
              /\ Patched(author[c]).stimulus = None \/ stimulus[Patched(author[c]).stimulus] # None
              /\ \E changed \in Changed(author[c].old, author[c].body) :
                   /\ Written(author[c], changed).version <= MaxVersion
                   /\ question' = [question EXCEPT ![author[c].question] = Written(author[c], changed)]
                   /\ stored' = stored \cup {Record(author[c].question, Written(author[c], changed))}
                   /\ raced' = IF [question[author[c].question] EXCEPT !.status = author[c].old.status,
                                     !.stimulus = author[c].old.stimulus] = author[c].old
                               THEN raced ELSE raced \cup {author[c].question}
                   /\ unchecked' = unchecked \ {author[c].question}
        /\ Done(c)
        /\ UNCHANGED <<bank, stimulus, unborn, exam, sections, structured>>
  BY DEF EndPatch
<1>2. CASE UNCHANGED <<question, authored>>
  BY <1>1, <1>2, NothingDone DEF RowsStay
<1> DEFINE r == author[c]
           q == r.question
<1>3. ASSUME question[q] # None, Patched(r).bank \in bank,
             Patched(r).stimulus = None \/ stimulus[Patched(r).stimulus] # None,
             NEW changed \in Changed(r.old, r.body), Written(r, changed).version <= MaxVersion,
             question' = [question EXCEPT ![q] = Written(r, changed)],
             stored' = stored \cup {Record(q, Written(r, changed))},
             raced' = IF [question[q] EXCEPT !.status = r.old.status, !.stimulus = r.old.stimulus] = r.old
                      THEN raced ELSE raced \cup {q},
             unchecked' = unchecked \ {q}
      PROVE  BankInv' /\ RowsStay
  <2>1. /\ q \in Question /\ r.old \in QuestionRow /\ r.body \in Patch
        /\ Patched(r).content \notin Faulty /\ Bound(Patched(r))
    BY <1>1 DEF BankInv, PatchesOK, At
  <2>2. Patched(r) \in QuestionRow /\ Patched(r).version = r.old.version
    BY <2>1, RowSent
  <2>3. question[q] \in QuestionRow
    BY <1>3, <2>1, QuestionThere
  <2>4. changed \in BOOLEAN
    BY DEF Changed
  <2> DEFINE version == IF changed THEN Patched(r).version + 1 ELSE Patched(r).version
             status == IF "status" \in DOMAIN r.body THEN Patched(r).status ELSE question[q].status
             row == Written(r, changed)
  <2>5. row = [Patched(r) EXCEPT !.version = version, !.status = status]
    OBVIOUS
  <2>6. Patched(r).version \in 1..MaxVersion /\ status \in Sent("status") \cup {"draft"}
    BY <2>2, <2>3 DEF QuestionRow
  <2> HIDE DEF Patched, Written, status
  <2>7. version \in Nat \ {0} /\ MaxVersion \in Nat
    BY <2>4, <2>6, AuthoringAssumption
  <2>8. row.version = version
    BY <2>2, <2>5 DEF QuestionRow
  <2> HIDE DEF row, version
  <2>9. version \in 1..MaxVersion
    BY <1>3, <2>7, <2>8 DEF row
  <2>10. /\ row \in QuestionRow /\ row.bank = Patched(r).bank /\ row.stimulus = Patched(r).stimulus
         /\ row.content = Patched(r).content /\ row.scoring = Patched(r).scoring
    <3>1. Patched(r) \in QuestionRow /\ version \in 1..MaxVersion /\ status \in Sent("status") \cup {"draft"}
      BY <2>2, <2>6, <2>9
    <3>2. QED
      BY <2>5, <3>1 DEF QuestionRow
  <2>11. Bound(row)
    BY <2>1, <2>10 DEF Bound
  <2>12. ASSUME q \notin raced'
         PROVE  \/ row.version > question[q].version
                \/ row.version = question[q].version /\ Definition(row) = Definition(question[q])
    <3>1. r.old = [question[q] EXCEPT !.status = r.old.status, !.stimulus = r.old.stimulus]
      <4> DEFINE same == [question[q] EXCEPT !.status = r.old.status, !.stimulus = r.old.stimulus] = r.old
      <4>1. raced' = IF same THEN raced ELSE raced \cup {q}
        BY <1>3
      <4> HIDE DEF same
      <4>2. same
        BY <2>12, <4>1
      <4>3. QED
        BY <4>2 DEF same
    <3>2. /\ r.old.version = question[q].version
          /\ Definition(r.old) = Definition(question[q])
      BY <2>3, <3>1 DEF Definition, QuestionRow
    <3>3. CASE changed
      BY <2>2, <2>6, <2>8, <3>2, <3>3 DEF version
    <3>4. CASE ~changed
      <4>1. changed = FALSE
        BY <2>4, <3>4
      <4>2. Definition(Patched(r)) = Definition(r.old)
        BY <1>3, <2>1, <4>1, UnchangedIsSame DEF Patched
      <4>3. QED
        BY <2>2, <2>8, <2>10, <3>2, <3>4, <4>2 DEF version, Definition
    <3>5. QED
      BY <3>3, <3>4
  <2>13. /\ question' = [question EXCEPT ![q] = row] /\ stored' = stored \cup {Record(q, row)}
         /\ raced \subseteq raced' /\ raced' \subseteq raced \cup {q}
    BY <1>3 DEF row
  <2>14. row.bank \in bank /\ row.content \notin Faulty /\ (row.stimulus # None => stimulus[row.stimulus] # None)
    BY <1>3, <2>1, <2>10
  <2> HIDE DEF q, r
  <2>15. QED
    BY <1>1, <1>3, <2>1, <2>10, <2>11, <2>12, <2>13, <2>14, RowRewritten
<1>4. QED
  BY <1>1, <1>2, <1>3

LEMMA BankKeeps == BankInv /\ [AuthoringNext]_authoringVars => BankInv'
<1> SUFFICES ASSUME BankInv, [AuthoringNext]_authoringVars
             PROVE  BankInv'
  OBVIOUS
<1>1. CASE UNCHANGED authoringVars
  <2>1. UNCHANGED <<bank, stimulus, unborn, question, authored, author>>
    BY <1>1 DEF authoringVars, tables
  <2>2. DOMAIN author' = Author
    BY <2>1 DEF BankInv, BankTyped
  <2>3. QED
    BY <2>1, <2>2, BankFrame
<1>2. CASE AuthoringNext
  BY <1>2, CreateBankKeeps, DeleteBankKeeps, CreateStimulusKeeps, DeleteStimulusKeeps, BeginInsertKeeps,
     EndInsertKeeps, BeginPatchKeeps, EndPatchKeeps, DeleteQuestionKeeps, OthersKeepBanks DEF AuthoringNext, BankNext
<1>3. QED
  BY <1>1, <1>2

LEMMA BankInvImplies == BankInv => VersionsUnlessRaced /\ StimulusOfBank
<1> SUFFICES ASSUME BankInv
             PROVE  VersionsUnlessRaced /\ StimulusOfBank
  OBVIOUS
<1>1. ASSUME NEW q \in Existing(question) \ unchecked
      PROVE  StimulusInBank(question[q].stimulus, question[q].bank)
  <2>1. q \in Question /\ question[q] # None
    BY DEF Existing, BankInv, BankTyped
  <2>2. Bound(question[q]) /\ (question[q].stimulus # None => stimulus[question[q].stimulus] # None)
    BY <2>1 DEF BankInv, QuestionOK
  <2>3. QED
    BY <2>2 DEF Bound, StimulusInBank
<1>2. QED
  BY <1>1 DEF BankInv, StimulusOfBank

\* Results and packages quote the version of a question (questions.ts: it rises with content,
\* key and scoring): for any questions, requests and bodies that overlap in any way, one version
\* never names two definitions, but for questions that a PATCH wrote over unread.
THEOREM VersionsNameOneDefinition == AuthoringSpec => []VersionsUnlessRaced
<1>1. BankInv /\ [AuthoringNext]_authoringVars => BankInv'
  BY BankKeeps
<1>2. QED
  BY <1>1, BankBegins, BankInvImplies, PTL DEF AuthoringSpec

\* The check of questions.ts that a stimulus is of the bank of its question holds at any later
\* time, however banks and stimuli are deleted and questions moved meanwhile, but for imports.
THEOREM StimuliAreOfTheirBank == AuthoringSpec => []StimulusOfBank
<1>1. BankInv /\ [AuthoringNext]_authoringVars => BankInv'
  BY BankKeeps
<1>2. QED
  BY <1>1, BankBegins, BankInvImplies, PTL DEF AuthoringSpec

LEMMA BankRequests ==
  ASSUME BankInv, BankNext
  PROVE  \A c \in Author : author'[c] = author[c] \/ author'[c].op \in {"insert", "patch", "idle"}
<1>0. DOMAIN author = Author
  BY DEF BankInv, BankTyped
<1>1. CASE CreateBank \/ DeleteBank \/ CreateStimulus \/ DeleteStimulus \/ DeleteQuestion
  BY <1>1 DEF CreateBank, DeleteBank, CreateStimulus, DeleteStimulus, DeleteQuestion
<1>2. CASE BeginInsert
  <2>1. PICK c \in Author :
          \/ \E row \in NewQuestion : author' = [author EXCEPT ![c] = [op |-> "insert", rows |-> {row}, checked |-> TRUE]]
          \/ \E q \in Existing(question) :
               author' = [author EXCEPT ![c] = [op |-> "insert", checked |-> q \notin unchecked,
                                                rows |-> {[question[q] EXCEPT !.status = "draft", !.version = 1]}]]
          \/ \E rows \in SUBSET NewQuestion :
               author' = [author EXCEPT ![c] = [op |-> "insert", rows |-> rows, checked |-> FALSE]]
    BY <1>2 DEF BeginInsert
  <2>2. author'[c].op = "insert" /\ \A d \in Author \ {c} : author'[d] = author[d]
    <3>1. CASE \E row \in NewQuestion :
                 author' = [author EXCEPT ![c] = [op |-> "insert", rows |-> {row}, checked |-> TRUE]]
      BY <1>0, <3>1
    <3>2. ASSUME NEW q \in Existing(question),
                 author' = [author EXCEPT ![c] = [op |-> "insert", checked |-> q \notin unchecked,
                                                  rows |-> {[question[q] EXCEPT !.status = "draft", !.version = 1]}]]
          PROVE  author'[c].op = "insert" /\ \A d \in Author \ {c} : author'[d] = author[d]
      BY <1>0, <3>2
    <3>3. CASE \E rows \in SUBSET NewQuestion :
                 author' = [author EXCEPT ![c] = [op |-> "insert", rows |-> rows, checked |-> FALSE]]
      BY <1>0, <3>3
    <3>4. QED
      BY <2>1, <3>1, <3>2, <3>3
  <2>3. QED
    BY <2>2
<1>3. CASE BeginPatch
  <2>1. PICK c \in Author, q \in Existing(question), b \in Patch :
          author' = [author EXCEPT ![c] = [op |-> "patch", question |-> q, old |-> question[q], body |-> b]]
    BY <1>3 DEF BeginPatch
  <2>2. author'[c].op = "patch" /\ \A d \in Author \ {c} : author'[d] = author[d]
    BY <1>0, <2>1
  <2>3. QED
    BY <2>2
<1>4. CASE EndInsert \/ EndPatch
  <2>1. PICK c \in Author : author' = [author EXCEPT ![c] = Idle]
    BY <1>4 DEF EndInsert, EndPatch, Done
  <2>2. author'[c].op = "idle" /\ \A d \in Author \ {c} : author'[d] = author[d]
    BY <1>0, <2>1 DEF Idle
  <2>3. QED
    BY <2>2
<1>5. QED
  BY <1>1, <1>2, <1>3, <1>4 DEF BankNext

\* What an exam asks is not deleted.
LEMMA UsedStay ==
  ASSUME BankInv, BankNext
  PROVE  \A q \in Question \cap Used : question[q] # None => question'[q] # None
<1> SUFFICES ASSUME NEW q \in Question, q \in Used, question[q] # None
             PROVE  question'[q] # None
  OBVIOUS
<1>0. question \in [Question -> QuestionRow \cup {None}]
  BY DEF BankInv, BankTyped
<1>1. CASE DeleteBank
  <2>1. PICK b \in bank :
          /\ {x \in Existing(question) : question[x].bank = b} \cap Used = {}
          /\ question' = [x \in Question |-> IF x \in {y \in Existing(question) : question[y].bank = b} THEN None
                                             ELSE Unlinked({t \in Stimulus : stimulus[t] = b})[x]]
    BY <1>1 DEF DeleteBank
  <2> DEFINE gone == {t \in Stimulus : stimulus[t] = b}
  <2>2. question'[q] = Unlinked(gone)[q]
    BY <2>1
  <2> HIDE DEF gone
  <2>3. question'[q] \in QuestionRow
    BY <2>2, UnlinkedRows
  <2>4. QED
    BY <2>3, NoneIsNothing
<1>2. CASE DeleteStimulus
  <2>1. PICK s \in Existing(stimulus) : question' = Unlinked({s})
    BY <1>2 DEF DeleteStimulus
  <2>2. question'[q] \in QuestionRow
    BY <2>1, UnlinkedRows
  <2>3. QED
    BY <2>2, NoneIsNothing
<1>3. CASE DeleteQuestion
  BY <1>0, <1>3 DEF DeleteQuestion, Deletable
<1>4. CASE EndInsert \/ EndPatch
  BY <1>4, EndInsertKeeps, EndPatchKeeps DEF RowsStay
<1>5. CASE CreateBank \/ CreateStimulus \/ BeginInsert \/ BeginPatch
  BY <1>5 DEF CreateBank, CreateStimulus, BeginInsert, BeginPatch, tables
<1>6. QED
  BY <1>1, <1>2, <1>3, <1>4, <1>5 DEF BankNext

LEMMA ExamBegins == AuthoringInit => ExamInv
<1>1. Numbered({})
  BY DEF Numbered
<1>2. QED
  BY <1>1 DEF AuthoringInit, ExamInv, ExamTyped, SectionsOK, WholeOK, AllOrNone, OnePutUnlessMixed, PutOK,
              ReplaceOK, Idle

LEMMA AskedAreQuestions ==
  ASSUME ExamInv, NEW s \in sections, NEW q \in Range(s.questions)
  PROVE  q \in Question /\ q \in Used
<1>1. s.questions \in Seq(Question)
  BY DEF ExamInv, ExamTyped, SectionRow
<1>2. QED
  BY <1>1 DEF Range, Used

\* Steps that write no section.
LEMMA ExamFrame ==
  ASSUME ExamInv, UNCHANGED <<exam, sections, structured>>, DOMAIN author' = Author,
         \A c \in Author : \/ author'[c] = author[c]
                           \/ PutOK(author'[c]) /\ ReplaceOK(author'[c]),
         \A s \in sections : \A q \in Range(s.questions) : question'[q] # None
  PROVE  ExamInv'
<1>1. ExamTyped'
  BY DEF ExamInv, ExamTyped, structured
<1>2. SectionsOK'
  BY DEF ExamInv, SectionsOK, SectionOK, structured
<1>3. WholeOK' /\ AllOrNone(sections)' /\ OnePutUnlessMixed'
  BY DEF ExamInv, WholeOK, AllOrNone, OnePutUnlessMixed, SectionsOf, structured
<1>4. ASSUME NEW c \in Author
      PROVE  (PutOK(author[c]) /\ ReplaceOK(author[c]))'
  <2>1. PutOK(author'[c]) /\ ReplaceOK(author'[c])
    BY DEF ExamInv
  <2>2. QED
    BY <2>1 DEF PutOK, ReplaceOK, AllOrNone, SectionsOf, structured
<1>5. QED
  BY <1>1, <1>2, <1>3, <1>4 DEF ExamInv

LEMMA BanksKeepExams == BankInv /\ ExamInv /\ BankNext => ExamInv'
<1> SUFFICES ASSUME BankInv, ExamInv, BankNext
             PROVE  ExamInv'
  OBVIOUS
<1>1. UNCHANGED <<exam, sections, structured>>
  BY DEF BankNext, CreateBank, DeleteBank, CreateStimulus, DeleteStimulus, BeginInsert, EndInsert,
         BeginPatch, EndPatch, DeleteQuestion, tables
<1>2. BankInv'
  BY BankKeeps DEF AuthoringNext
<1>3. DOMAIN author' = Author
  BY <1>2 DEF BankInv, BankTyped
<1>4. \A c \in Author : \/ author'[c] = author[c]
                        \/ PutOK(author'[c]) /\ ReplaceOK(author'[c])
  BY BankRequests DEF PutOK, ReplaceOK
<1>5. \A s \in sections : \A q \in Range(s.questions) : question'[q] # None
  <2> TAKE s \in sections
  <2> TAKE q \in Range(s.questions)
  <2>1. question[q] # None
    BY DEF ExamInv, SectionsOK
  <2>2. QED
    BY <2>1, AskedAreQuestions, UsedStay
<1>6. QED
  BY <1>1, <1>3, <1>4, <1>5, ExamFrame

LEMMA BeginPutKeeps == ExamInv /\ BeginPut => ExamInv'
<1> SUFFICES ASSUME ExamInv, BeginPut
             PROVE  ExamInv'
  OBVIOUS
<1>1. PICK c \in Author, e \in exam, structure \in Structure :
        /\ StructureOK(structure)
        /\ author' = [author EXCEPT ![c] = [op |-> "put", exam |-> e, new |-> structure]]
        /\ UNCHANGED <<tables, authored, structured>>
  BY DEF BeginPut
<1>2. DOMAIN author = Author /\ exam \subseteq Exam /\ SectionsOK
  BY DEF ExamInv, ExamTyped
<1>3. /\ author'[c] = [op |-> "put", exam |-> e, new |-> structure]
      /\ \A d \in Author \ {c} : author'[d] = author[d]
      /\ DOMAIN author' = Author
  BY <1>1, <1>2
<1>4. PutOK(author'[c]) /\ ReplaceOK(author'[c])
  BY <1>1, <1>2, <1>3 DEF PutOK, ReplaceOK, StructureOK
<1>5. /\ UNCHANGED <<exam, sections, structured>>
      /\ \A s \in sections : \A q \in Range(s.questions) : question'[q] # None
  BY <1>1, <1>2 DEF SectionsOK, tables
<1>6. QED
  BY <1>3, <1>4, <1>5, ExamFrame

LEMMA DeleteSectionsKeeps == ExamInv /\ DeleteSections => ExamInv'
<1> SUFFICES ASSUME ExamInv, DeleteSections
             PROVE  ExamInv'
  OBVIOUS
<1>1. PICK c \in Author :
        /\ author[c].op = "put"
        /\ author' = [author EXCEPT ![c] = [op |-> "replace", exam |-> author[c].exam, new |-> author[c].new,
                                            seen |-> SectionsOf(author[c].exam), began |-> puts]]
        /\ UNCHANGED <<tables, authored, structured>>
  BY DEF DeleteSections, At, Replaced
<1> DEFINE r == author[c]
           s == author'[c]
<1>2. DOMAIN author = Author /\ SectionsOK /\ WholeOK /\ AllOrNone(sections) /\ puts \in Nat
  BY DEF ExamInv, ExamTyped
<1>3. /\ s = [op |-> "replace", exam |-> r.exam, new |-> r.new, seen |-> SectionsOf(r.exam), began |-> puts]
      /\ \A d \in Author \ {c} : author'[d] = author[d]
      /\ DOMAIN author' = Author
  BY <1>1, <1>2
<1>4. PutOK(r)
  BY DEF ExamInv
<1>5. /\ s.op = "replace" /\ s.exam = r.exam /\ s.new = r.new /\ s.began = puts /\ s.seen = SectionsOf(r.exam)
  BY <1>3
<1> HIDE DEF r, s
<1>6. PutOK(s)
  BY <1>1, <1>4, <1>5 DEF PutOK, r
<1>7. AllOrNone(SectionsOf(r.exam))
  BY <1>2 DEF AllOrNone, WholeOK, SectionsOf
<1>8. ReplaceOK(s)
  BY <1>2, <1>5, <1>7 DEF ReplaceOK, SectionsOK, SectionsOf, ExamInv, ExamTyped, SectionRow
<1>9. /\ UNCHANGED <<exam, sections, structured>>
      /\ \A x \in sections : \A q \in Range(x.questions) : question'[q] # None
  BY <1>1, <1>2 DEF SectionsOK, tables
<1>10. QED
  BY <1>3, <1>6, <1>8, <1>9, ExamFrame DEF s

\* Rows that were not there before take the place of those that are known of an exam.
Writes(e, rows, gone) ==
  /\ e \in Exam /\ exam' = exam \cup {e}
  /\ AllOrNone(gone) /\ \A s \in gone : s.exam = e
  /\ \A s \in rows : /\ s \in SectionRow /\ s.exam = e /\ s.put = puts + 1 /\ SectionOK(s)
                      /\ \A q \in Range(s.questions) : question[q] # None
  /\ \A s, t \in rows : s # t => Range(s.questions) \cap Range(t.questions) = {}
  /\ Numbered(rows)
  /\ sections' = (sections \ gone) \cup rows /\ puts' = puts + 1 /\ whole' = whole \cup {rows}
  /\ UNCHANGED question /\ mixed \subseteq mixed' \cup {e} /\ (e \notin mixed' => SectionsOf(e) \subseteq gone)
  /\ DOMAIN author' = Author /\ \A c \in Author : author'[c] \in {author[c], Idle}

LEMMA StructureWritten ==
  ASSUME ExamInv, NEW e, NEW rows, NEW gone, Writes(e, rows, gone)
  PROVE  ExamInv'
<1>0. /\ e \in Exam /\ exam' = exam \cup {e}
      /\ AllOrNone(gone) /\ \A s \in gone : s.exam = e
      /\ \A s \in rows : /\ s \in SectionRow /\ s.exam = e /\ s.put = puts + 1 /\ SectionOK(s)
                          /\ \A q \in Range(s.questions) : question[q] # None
      /\ \A s, t \in rows : s # t => Range(s.questions) \cap Range(t.questions) = {}
      /\ Numbered(rows)
      /\ sections' = (sections \ gone) \cup rows /\ puts' = puts + 1 /\ whole' = whole \cup {rows}
      /\ UNCHANGED question /\ mixed \subseteq mixed' \cup {e} /\ (e \notin mixed' => SectionsOf(e) \subseteq gone)
      /\ DOMAIN author' = Author /\ \A c \in Author : author'[c] \in {author[c], Idle}
  BY DEF Writes
<1>1. /\ exam \subseteq Exam /\ sections \subseteq SectionRow /\ puts \in Nat
      /\ SectionsOK /\ WholeOK /\ AllOrNone(sections) /\ OnePutUnlessMixed
      /\ \A c \in Author : PutOK(author[c]) /\ ReplaceOK(author[c])
  BY DEF ExamInv, ExamTyped
<1>2. \A w \in whole : w \cap rows = {}
  <2>1. \A w \in whole : \A s \in w : s.put \in Nat /\ s.put <= puts
    BY <1>0, <1>1 DEF WholeOK
  <2>2. ~(puts + 1 <= puts)
    BY <1>0, <1>1
  <2>3. QED
    BY <1>0, <2>1, <2>2
<1>3. ExamTyped'
  BY <1>0, <1>1 DEF ExamTyped
<1>4. \A s \in sections' : s \in rows \/ s \in sections
  BY <1>0
<1>5. SectionsOK'
  <2> SUFFICES ASSUME NEW s \in sections'
               PROVE  /\ s.exam \in exam' /\ s.put <= puts' /\ SectionOK(s)
                      /\ \A q \in Range(s.questions) : question'[q] # None
    BY DEF SectionsOK, SectionOK
  <2>1. CASE s \in rows
    BY <1>0, <1>1, <2>1
  <2>2. CASE s \in sections
    <3>1. s.put \in Nat /\ s.put <= puts /\ s.exam \in exam'
      BY <1>0, <1>1, <2>2 DEF SectionsOK, SectionRow
    <3>2. QED
      BY <1>0, <1>1, <2>2, <3>1 DEF SectionsOK
  <2>3. QED
    BY <1>0, <1>4, <2>1, <2>2
<1>6. WholeOK'
  <2> SUFFICES ASSUME NEW w \in whole'
               PROVE  /\ \A s \in w : s.put \in Nat /\ s.put <= puts'
                      /\ \A s, t \in w : /\ s.exam = t.exam
                                         /\ s # t => Range(s.questions) \cap Range(t.questions) = {}
                      /\ Numbered(w)
    BY DEF WholeOK, Numbered
  <2>1. CASE w = rows
    <3>1. Numbered(w)
      BY <1>0, <2>1
    <3>2. \A s \in w : s.exam = e /\ s.put = puts + 1
      BY <1>0, <2>1
    <3>3. \A s, t \in w : s # t => Range(s.questions) \cap Range(t.questions) = {}
      BY <1>0, <2>1
    <3>4. puts + 1 \in Nat /\ puts + 1 <= puts'
      BY <1>0, <1>1
    <3>5. QED
      BY <3>1, <3>2, <3>3, <3>4
  <2>2. CASE w \in whole
    <3>1. \A s \in w : s.put \in Nat /\ s.put <= puts
      BY <1>0, <1>1, <2>2 DEF WholeOK
    <3>2. \A s \in w : s.put \in Nat /\ s.put <= puts'
      BY <1>0, <1>1, <2>2, <3>1 DEF WholeOK
    <3>3. QED
      BY <1>0, <1>1, <2>2, <3>2 DEF WholeOK
  <2>3. QED
    BY <1>0, <2>1, <2>2
<1>7. AllOrNone(sections)'
  <2> SUFFICES ASSUME NEW w \in whole'
               PROVE  w \subseteq sections' \/ w \cap sections' = {}
    BY DEF AllOrNone
  <2>1. CASE w = rows
    BY <1>0, <2>1
  <2>2. CASE w \in whole
    <3>1. w \cap rows = {} /\ (w \subseteq sections \/ w \cap sections = {}) /\ (w \subseteq gone \/ w \cap gone = {})
      BY <1>0, <1>1, <1>2, <2>2 DEF AllOrNone
    <3>2. QED
      BY <1>0, <3>1
  <2>3. QED
    BY <1>0, <2>1, <2>2
<1>8. OnePutUnlessMixed'
  <2> SUFFICES ASSUME NEW x \in exam' \ mixed'
               PROVE  SectionsOf(x)' \in whole'
    BY DEF OnePutUnlessMixed
  <2>1. CASE x = e
    <3>1. SectionsOf(x)' = rows
      BY <1>0, <2>1 DEF SectionsOf
    <3>2. QED
      BY <1>0, <3>1
  <2>2. CASE x # e
    <3>1. SectionsOf(x)' = SectionsOf(x)
      BY <1>0, <2>2 DEF SectionsOf
    <3>2. x \in exam \ mixed
      BY <1>0, <2>2
    <3>3. QED
      BY <1>0, <1>1, <3>1, <3>2 DEF OnePutUnlessMixed
  <2>3. QED
    BY <1>0, <2>1, <2>2
<1>9. ASSUME NEW c \in Author
      PROVE  (PutOK(author[c]) /\ ReplaceOK(author[c]))'
  <2>1. CASE author'[c] = Idle
    BY <1>0, <2>1 DEF PutOK, ReplaceOK, Idle
  <2>2. CASE author'[c] = author[c]
    <3> DEFINE r == author[c]
    <3>1. PutOK(r) /\ ReplaceOK(r)
      BY <1>0, <1>1
    <3> HIDE DEF r
    <3>2. ASSUME r.op = "replace"
          PROVE  /\ r.began \in Nat /\ r.began <= puts' /\ r.began # puts'
                 /\ \A s \in r.seen : s.exam = r.exam /\ s.put \in Nat /\ s.put <= puts'
                 /\ \A w \in whole' : w \subseteq r.seen \/ w \cap r.seen = {}
      <4>1. /\ r.began \in Nat /\ r.began <= puts
            /\ \A s \in r.seen : s.exam = r.exam /\ s.put \in Nat /\ s.put <= puts
            /\ \A w \in whole : w \subseteq r.seen \/ w \cap r.seen = {}
        BY <1>0, <3>1, <3>2 DEF ReplaceOK, AllOrNone
      <4>2. rows \cap r.seen = {}
        BY <1>0, <1>1, <4>1
      <4>3. /\ r.began <= puts' /\ r.began # puts'
            /\ \A s \in r.seen : s.exam = r.exam /\ s.put \in Nat /\ s.put <= puts'
        BY <1>0, <1>1, <4>1
      <4>4. QED
        BY <1>0, <4>1, <4>2, <4>3
    <3>3. PutOK(author'[c]) /\ author'[c] = r
      BY <1>0, <2>2, <3>1 DEF r
    <3>4. PutOK(author[c])'
      BY <1>0, <3>3 DEF PutOK
    <3>5. ReplaceOK(author[c])'
      BY <1>0, <3>2, <3>3 DEF ReplaceOK, AllOrNone
    <3>6. QED
      BY <1>0, <3>4, <3>5
  <2>3. QED
    BY <1>0, <2>1, <2>2
<1>10. QED
  BY <1>0, <1>3, <1>5, <1>6, <1>7, <1>8, <1>9 DEF ExamInv

\* The rows of a structure that was checked.
RowsOf(e, new) ==
  {[exam |-> e, put |-> puts + 1, order |-> i, pick |-> new[i].pick, questions |-> new[i].questions] : i \in DOMAIN new}

LEMMA RowsOfStructure ==
  ASSUME NEW new \in Structure, NoDuplicates(new), NEW e \in Exam, puts \in Nat,
         \A i \in DOMAIN new : new[i].pick # None => new[i].pick <= Len(new[i].questions),
         \A q \in QuestionsOf(new) : question[q] # None
  PROVE  /\ \A s \in RowsOf(e, new) : /\ s \in SectionRow /\ s.exam = e /\ s.put = puts + 1 /\ SectionOK(s)
                                      /\ \A q \in Range(s.questions) : question[q] # None
         /\ \A s, t \in RowsOf(e, new) : s # t => Range(s.questions) \cap Range(t.questions) = {}
         /\ Numbered(RowsOf(e, new))
<1> DEFINE Row(i) == [exam |-> e, put |-> puts + 1, order |-> i, pick |-> new[i].pick, questions |-> new[i].questions]
           Part == [pick : Nat \cup {None}, questions : Seq(Question)]
<1>1. new \in Seq(Part) /\ RowsOf(e, new) = {Row(i) : i \in DOMAIN new}
  BY AuthoringAssumption DEF RowsOf
<1>2. \A i \in DOMAIN new : i \in Nat /\ new[i].pick \in Nat \cup {None} /\ new[i].questions \in Seq(Question)
  <2>1. \A i \in DOMAIN new : i \in Nat /\ new[i] \in Part
    <3> HIDE DEF Part
    <3>1. QED
      BY <1>1
  <2>2. QED
    BY <2>1
<1>3. ASSUME NEW i \in DOMAIN new
      PROVE  /\ Row(i) \in SectionRow /\ Row(i).exam = e /\ Row(i).put = puts + 1 /\ SectionOK(Row(i))
             /\ \A q \in Range(Row(i).questions) : question[q] # None
  <2>1. Row(i) \in SectionRow /\ Row(i).exam = e /\ Row(i).put = puts + 1
    BY <1>2 DEF SectionRow
  <2>2. Row(i).questions = new[i].questions /\ Row(i).pick = new[i].pick
    OBVIOUS
  <2>3. IsInjective(new[i].questions)
    BY DEF NoDuplicates, IsInjective
  <2>4. \A q \in Range(new[i].questions) : question[q] # None
    BY DEF QuestionsOf
  <2> HIDE DEF Row
  <2>5. QED
    BY <2>1, <2>2, <2>3, <2>4 DEF SectionOK
<1>4. ASSUME NEW i \in DOMAIN new, NEW j \in DOMAIN new, Row(i) # Row(j)
      PROVE  Range(Row(i).questions) \cap Range(Row(j).questions) = {}
  <2>1. i # j
    BY <1>4
  <2>2. Range(new[i].questions) \cap Range(new[j].questions) = {}
    BY <2>1 DEF NoDuplicates, Range
  <2>3. QED
    BY <2>2
<1>5. \A i \in DOMAIN new : Row(i).order = i
  OBVIOUS
<1>6. \A i \in DOMAIN new : i \in Nat /\ 1..i \subseteq DOMAIN new
  <2> HIDE DEF Part
  <2>1. QED
    BY <1>1
<1> HIDE DEF Row
<1>7. Numbered(RowsOf(e, new))
  <2>1. ASSUME NEW s \in RowsOf(e, new)
        PROVE  \E i \in DOMAIN new : s = Row(i) /\ s.order = i
    BY <1>1, <1>5
  <2>2. \A s, t \in RowsOf(e, new) : s.order = t.order => s = t
    BY <2>1
  <2>3. ASSUME NEW s \in RowsOf(e, new), NEW k \in 1..s.order
        PROVE  \E t \in RowsOf(e, new) : t.order = k
    <3>1. k \in DOMAIN new
      BY <1>6, <2>1, <2>3
    <3>2. Row(k) \in RowsOf(e, new) /\ Row(k).order = k
      BY <1>1, <1>5, <3>1
    <3>3. QED
      BY <3>2
  <2>4. QED
    BY <2>2, <2>3 DEF Numbered
<1>8. QED
  BY <1>1, <1>3, <1>4, <1>7

LEMMA CommitPutKeeps == ExamInv /\ CommitPut => ExamInv'
<1> SUFFICES ASSUME ExamInv, CommitPut
             PROVE  ExamInv'
  OBVIOUS
<1>1. PICK c \in Author :
        /\ author[c].op = "replace"
        /\ LET r == author[c]
               rows == {[exam |-> r.exam, put |-> puts + 1, order |-> i, pick |-> r.new[i].pick,
                         questions |-> r.new[i].questions] : i \in DOMAIN r.new}
           IN IF r.exam \notin exam \/ \E q \in QuestionsOf(r.new) : question[q] = None
              THEN UNCHANGED <<sections, structured>>
              ELSE /\ sections' = (sections \ r.seen) \cup rows
                   /\ puts' = puts + 1
                   /\ mixed' = IF r.began = puts THEN mixed \ {r.exam} ELSE mixed \cup {r.exam}
                   /\ whole' = whole \cup {rows}
        /\ Done(c)
        /\ UNCHANGED <<bank, stimulus, unborn, question, exam, authored>>
  BY DEF CommitPut, At
<1> DEFINE r == author[c]
           rows == {[exam |-> r.exam, put |-> puts + 1, order |-> i, pick |-> r.new[i].pick,
                     questions |-> r.new[i].questions] : i \in DOMAIN r.new}
<1>2. DOMAIN author = Author /\ SectionsOK /\ puts \in Nat
  BY DEF ExamInv, ExamTyped
<1>3. PutOK(r) /\ ReplaceOK(r)
  BY DEF ExamInv
<1>4. DOMAIN author' = Author /\ \A d \in Author : author'[d] = IF d = c THEN Idle ELSE author[d]
  BY <1>1, <1>2 DEF Done
<1>5. CASE UNCHANGED <<sections, structured>>
  <2>1. PutOK(Idle) /\ ReplaceOK(Idle)
    BY DEF PutOK, ReplaceOK, Idle
  <2>2. \A s \in sections : \A q \in Range(s.questions) : question'[q] # None
    BY <1>1, <1>2 DEF SectionsOK
  <2>3. UNCHANGED exam
    BY <1>1
  <2> HIDE DEF r, rows
  <2>4. QED
    BY <1>4, <1>5, <2>1, <2>2, <2>3, ExamFrame
<1>6. ASSUME r.exam \in exam, \A q \in QuestionsOf(r.new) : question[q] # None,
             sections' = (sections \ r.seen) \cup rows, puts' = puts + 1,
             mixed' = IF r.began = puts THEN mixed \ {r.exam} ELSE mixed \cup {r.exam},
             whole' = whole \cup {rows}
      PROVE  ExamInv'
  <2>1. /\ r.exam \in Exam /\ r.new \in Structure /\ NoDuplicates(r.new)
        /\ \A i \in DOMAIN r.new : r.new[i].pick # None => r.new[i].pick <= Len(r.new[i].questions)
    BY <1>1, <1>3 DEF PutOK
  <2>2. /\ \A s \in r.seen : s.exam = r.exam
        /\ AllOrNone(r.seen)
        /\ r.began = puts => SectionsOf(r.exam) \subseteq r.seen
    BY <1>1, <1>3 DEF ReplaceOK
  <2> HIDE DEF r
  <2>3. /\ \A s \in rows : /\ s \in SectionRow /\ s.exam = r.exam /\ s.put = puts + 1 /\ SectionOK(s)
                           /\ \A q \in Range(s.questions) : question[q] # None
        /\ \A s, t \in rows : s # t => Range(s.questions) \cap Range(t.questions) = {}
        /\ Numbered(rows)
    <3>1. rows = RowsOf(r.exam, r.new)
      BY DEF RowsOf, r
    <3> HIDE DEF rows
    <3>2. QED
      BY <1>2, <1>6, <2>1, <3>1, RowsOfStructure
  <2>4. mixed \subseteq mixed' \cup {r.exam} /\ (r.exam \notin mixed' => SectionsOf(r.exam) \subseteq r.seen)
    BY <1>6, <2>2
  <2>5. exam' = exam \cup {r.exam} /\ UNCHANGED question
    BY <1>1, <1>6
  <2>6. \A d \in Author : author'[d] \in {author[d], Idle}
    BY <1>4
  <2> HIDE DEF rows
  <2>7. Writes(r.exam, rows, r.seen)
    BY <1>4, <1>6, <2>1, <2>2, <2>3, <2>4, <2>5, <2>6 DEF Writes
  <2>8. QED
    BY <2>7, StructureWritten
<1>7. QED
  BY <1>1, <1>5, <1>6

LEMMA CreateExamKeeps == ExamInv /\ CreateExam => ExamInv'
<1> SUFFICES ASSUME ExamInv, CreateExam
             PROVE  ExamInv'
  OBVIOUS
<1>1. PICK e \in Exam \ exam :
        LET first == {[exam |-> e, put |-> puts + 1, order |-> 1, pick |-> None, questions |-> <<>>]}
        IN /\ exam' = exam \cup {e}
           /\ sections' = sections \cup first
           /\ puts' = puts + 1 /\ whole' = whole \cup {first} /\ mixed' = mixed \ {e}
           /\ UNCHANGED <<bank, stimulus, unborn, question, author, authored>>
  BY DEF CreateExam
<1> DEFINE section == [exam |-> e, put |-> puts + 1, order |-> 1, pick |-> None, questions |-> <<>>]
<1>2. DOMAIN author = Author /\ SectionsOK /\ puts \in Nat
  BY DEF ExamInv, ExamTyped
<1>3. /\ section \in SectionRow /\ section.exam = e /\ section.put = puts + 1 /\ SectionOK(section)
      /\ section.order = 1
      /\ \A q \in Range(section.questions) : question[q] # None
  BY <1>2 DEF SectionRow, SectionOK, IsInjective, Range
<1>4. /\ exam' = exam \cup {e} /\ sections' = (sections \ {}) \cup {section}
      /\ puts' = puts + 1 /\ whole' = whole \cup {{section}} /\ mixed' = mixed \ {e}
      /\ UNCHANGED <<question, author>>
  BY <1>1
<1> HIDE DEF section
<1>5. SectionsOf(e) \subseteq {}
  BY <1>2 DEF SectionsOK, SectionsOf
<1>6. AllOrNone({})
  BY DEF AllOrNone
<1>7. mixed \subseteq mixed' \cup {e}
  BY <1>4
<1>8. /\ \A s \in {section} : /\ s \in SectionRow /\ s.exam = e /\ s.put = puts + 1 /\ SectionOK(s)
                              /\ \A q \in Range(s.questions) : question[q] # None
      /\ \A s, t \in {section} : s # t => Range(s.questions) \cap Range(t.questions) = {}
      /\ Numbered({section})
  BY <1>3 DEF Numbered
<1>9. DOMAIN author' = Author /\ \A d \in Author : author'[d] \in {author[d], Idle}
  BY <1>2, <1>4
<1>10. Writes(e, {section}, {})
  BY <1>4, <1>5, <1>6, <1>7, <1>8, <1>9 DEF Writes
<1>11. QED
  BY <1>10, StructureWritten

LEMMA DeleteExamKeeps == ASSUME NEW scheduled PROVE ExamInv /\ DeleteExam(scheduled) => ExamInv'
<1> SUFFICES ASSUME ExamInv, DeleteExam(scheduled)
             PROVE  ExamInv'
  OBVIOUS
<1>1. PICK e \in exam \ scheduled :
        /\ exam' = exam \ {e}
        /\ sections' = sections \ SectionsOf(e)
        /\ UNCHANGED <<bank, stimulus, unborn, question, author, authored, structured>>
  BY DEF DeleteExam
<1>2. UNCHANGED <<question, author, puts, mixed, whole>>
  BY <1>1 DEF structured
<1>3. ExamTyped'
  BY <1>1, <1>2 DEF ExamInv, ExamTyped
<1>4. SectionsOK' /\ WholeOK'
  BY <1>1, <1>2 DEF ExamInv, SectionsOK, SectionOK, WholeOK, SectionsOf, Numbered
<1>5. AllOrNone(sections)'
  <2> SUFFICES ASSUME NEW w \in whole
               PROVE  w \subseteq sections' \/ w \cap sections' = {}
    BY <1>2 DEF AllOrNone
  <2>1. (w \subseteq sections \/ w \cap sections = {}) /\ \A s, t \in w : s.exam = t.exam
    BY DEF ExamInv, AllOrNone, WholeOK
  <2>2. QED
    BY <1>1, <2>1 DEF SectionsOf
<1>6. OnePutUnlessMixed'
  <2> SUFFICES ASSUME NEW x \in exam' \ mixed'
               PROVE  SectionsOf(x)' \in whole'
    BY DEF OnePutUnlessMixed
  <2>1. x \in exam \ mixed /\ x # e
    BY <1>1, <1>2
  <2>2. SectionsOf(x)' = SectionsOf(x)
    BY <1>1, <2>1 DEF SectionsOf
  <2>3. QED
    BY <1>2, <2>1, <2>2 DEF ExamInv, OnePutUnlessMixed
<1>7. ASSUME NEW c \in Author
      PROVE  (PutOK(author[c]) /\ ReplaceOK(author[c]))'
  <2>1. PutOK(author[c]) /\ ReplaceOK(author[c])
    BY DEF ExamInv
  <2>2. \A x : SectionsOf(x)' \subseteq SectionsOf(x)
    BY <1>1 DEF SectionsOf
  <2>3. QED
    BY <1>2, <2>1, <2>2 DEF PutOK, ReplaceOK, AllOrNone
<1>8. QED
  BY <1>3, <1>4, <1>5, <1>6, <1>7 DEF ExamInv

LEMMA AuthorDiesKeeps == ExamInv /\ (AuthorDies \/ UNCHANGED authoringVars) => ExamInv'
<1> SUFFICES ASSUME ExamInv, AuthorDies \/ UNCHANGED authoringVars
             PROVE  ExamInv'
  OBVIOUS
<1>1. UNCHANGED <<exam, sections, structured, question>>
  BY DEF AuthorDies, authoringVars, tables
<1>2. DOMAIN author = Author /\ SectionsOK
  BY DEF ExamInv, ExamTyped
<1>3. author' = author \/ \E c \in Author : author' = [author EXCEPT ![c] = Idle]
  BY DEF AuthorDies, Done, authoringVars
<1>4. DOMAIN author' = Author /\ \A d \in Author : author'[d] \in {author[d], Idle}
  BY <1>2, <1>3
<1>5. PutOK(Idle) /\ ReplaceOK(Idle)
  BY DEF PutOK, ReplaceOK, Idle
<1>6. \A s \in sections : \A q \in Range(s.questions) : question'[q] # None
  BY <1>1, <1>2 DEF SectionsOK
<1>7. QED
  BY <1>1, <1>4, <1>5, <1>6, ExamFrame

LEMMA ExamKeeps == BankInv /\ ExamInv /\ [AuthoringNext]_authoringVars => ExamInv'
BY BanksKeepExams, BeginPutKeeps, DeleteSectionsKeeps, CommitPutKeeps, CreateExamKeeps, DeleteExamKeeps,
   AuthorDiesKeeps DEF AuthoringNext, ExamNext

LEMMA ExamInvImplies == BankInv /\ ExamInv => OnePutUnlessMixed /\ StructureSound /\ AuthoringTypeOK
<1> SUFFICES ASSUME BankInv, ExamInv
             PROVE  OnePutUnlessMixed /\ StructureSound /\ AuthoringTypeOK
  OBVIOUS
<1>1. SectionsOK /\ WholeOK /\ OnePutUnlessMixed
  BY DEF ExamInv
<1>2. StructureSound
  <2>1. \A e \in exam \ mixed :
          /\ Numbered(SectionsOf(e))
          /\ \A s, t \in SectionsOf(e) : s # t => Range(s.questions) \cap Range(t.questions) = {}
    BY <1>1 DEF OnePutUnlessMixed, WholeOK
  <2>2. QED
    BY <1>1, <2>1 DEF SectionsOK, SectionOK, StructureSound
<1>3. AuthoringTypeOK
  <2>1. ASSUME NEW q \in Existing(question)
        PROVE  /\ question[q].bank \in bank /\ question[q].version \in 1..MaxVersion
               /\ question[q].content \notin Faulty
               /\ question[q].stimulus \in Existing(stimulus) \cup {None}
    <3>1. q \in Question /\ question[q] # None
      BY DEF BankInv, BankTyped, Existing
    <3>2. question[q] \in QuestionRow /\ question[q].bank \in bank /\ question[q].stimulus \in Stimulus \cup {None}
          /\ (question[q].stimulus # None => stimulus[question[q].stimulus] # None)
      BY <3>1, QuestionThere
    <3>3. question[q].content \notin Faulty
      BY <3>1 DEF BankInv, QuestionOK
    <3>4. DOMAIN stimulus = Stimulus
      BY DEF BankInv, BankTyped
    <3>5. QED
      BY <3>2, <3>3, <3>4 DEF QuestionRow, Existing
  <2>2. QED
    BY <1>1, <2>1 DEF AuthoringTypeOK, SectionsOK
<1>4. QED
  BY <1>1, <1>2, <1>3

\* exams.ts: PUT structure deletes and inserts in one transaction, yet two that overlap may both
\* be left; all sections of any other exam come from one request.
THEOREM StructuresAreOnePut == AuthoringSpec => []OnePutUnlessMixed
<1>1. BankInv /\ ExamInv /\ [AuthoringNext]_authoringVars => BankInv' /\ ExamInv'
  BY BankKeeps, ExamKeeps
<1>2. QED
  BY <1>1, BankBegins, ExamBegins, ExamInvImplies, PTL DEF AuthoringSpec

\* What exams.ts checks before a structure is written - its questions exist, there are as many
\* as are picked - holds at any later time, whatever is deleted meanwhile; and, unless two PUTs
\* overlapped on the exam, no question is asked twice and the sections are numbered without gaps.
THEOREM StructuresStaySound == AuthoringSpec => []StructureSound
<1>1. BankInv /\ ExamInv /\ [AuthoringNext]_authoringVars => BankInv' /\ ExamInv'
  BY BankKeeps, ExamKeeps
<1>2. QED
  BY <1>1, BankBegins, ExamBegins, ExamInvImplies, PTL DEF AuthoringSpec
--------------------------------------------------------------------------------
(* Packages.                                                                 *)

Reading == {"sections", "questions", "stimuli", "participants", "assets", "composed"}

\* What a build has read so far.
SectionsRead ==
  build.op \in Reading =>
    /\ {"sections", "overlapped"} \subseteq DOMAIN build
    /\ build.sections \subseteq SectionRow
    /\ ~build.overlapped => build.sections \in whole

StimuliRead ==
  /\ build.op \in {"stimuli", "participants", "assets", "composed"} => "rows" \in DOMAIN build
  /\ build.op \in {"participants", "assets", "composed"} => "stimuli" \in DOMAIN build
  /\ build.op = "stimuli" =>
       \A q \in Asked(build) : build.rows[q].stimulus \in Existing(stimulus) \cup vanished \cup {None}
  /\ build.op \in {"participants", "assets", "composed"} =>
       \A q \in Asked(build) : build.rows[q].stimulus \in build.stimuli \cup vanished \cup {None}

AssetsRead ==
  build.op = "composed" =>
    \A q \in Asked(build) :
      MediaOf[build.rows[q].content] \cup UNION {MediaOf[s] : s \in build.stimuli} \subseteq build.assets

BuildOK == SectionsRead /\ StimuliRead /\ AssetsRead

LEMMA BuildBegins == ComposeInit => BuildOK
BY DEF ComposeInit, Idle, BuildOK, SectionsRead, StimuliRead, AssetsRead, Reading

\* The fields a step of a build reads, and those it leaves alone.
LEMMA StepReads ==
  ASSUME NEW op, NEW read, "op" \notin DOMAIN read, Step(op, read)
  PROVE  /\ build'.op = op
         /\ DOMAIN build \cup DOMAIN read \subseteq DOMAIN build'
         /\ \A x \in DOMAIN read : build'[x] = read[x]
         /\ \A x \in DOMAIN build \ (DOMAIN read \cup {"op"}) : build'[x] = build[x]
BY DEF Step, Over

LEMMA FailedIsOK == Fail => BuildOK'
BY DEF Fail, BuildOK, SectionsRead, StimuliRead, AssetsRead, Reading

\* The sections of a structure that is still there are read as they are; of one that was
\* replaced meanwhile nothing is left, and the build fails.
LEMMA SectionsOrNothing ==
  ASSUME ExamInv, build.sections \subseteq SectionRow
  PROVE  /\ SectionQuestions(build) \subseteq SectionRow
         /\ build.sections \in whole =>
              SectionQuestions(build) = build.sections \/ \A s \in SectionQuestions(build) : s.questions = <<>>
<1>1. \A s \in build.sections : /\ [s EXCEPT !.questions = <<>>] \in SectionRow
                                /\ [s EXCEPT !.questions = <<>>].questions = <<>>
  <2>1. <<>> \in Seq(Question)
    OBVIOUS
  <2>2. QED
    BY <2>1 DEF SectionRow
<1>2. SectionQuestions(build) \subseteq SectionRow
  BY <1>1 DEF SectionQuestions
<1>3. CASE build.sections \subseteq sections
  BY <1>2, <1>3 DEF SectionQuestions
<1>4. CASE build.sections \cap sections = {}
  <2>1. \A x \in SectionQuestions(build) : \E s \in build.sections : x = [s EXCEPT !.questions = <<>>]
    BY <1>4 DEF SectionQuestions
  <2>2. \A x \in SectionQuestions(build) : x.questions = <<>>
    <3> TAKE x \in SectionQuestions(build)
    <3>1. PICK s \in build.sections : x = [s EXCEPT !.questions = <<>>]
      BY <2>1
    <3>2. QED
      BY <1>1, <3>1
  <2>3. QED
    BY <1>2, <2>2
<1>5. build.sections \in whole => build.sections \subseteq sections \/ build.sections \cap sections = {}
  BY DEF ExamInv, AllOrNone
<1>6. QED
  BY <1>2, <1>3, <1>4, <1>5

LEMMA ComposeKeeps == BankInv /\ ExamInv /\ BuildOK /\ Compose /\ UNCHANGED authoringVars => BuildOK'
<1> SUFFICES ASSUME BankInv, ExamInv, BuildOK, Compose, UNCHANGED authoringVars
             PROVE  BuildOK'
  OBVIOUS
<1>0. UNCHANGED <<whole, stimulus, sections, question>>
  BY DEF authoringVars, tables, structured
<1>1. CASE ReadSections
  <2>1. PICK e \in exam : \E s \in Existing(schedule) :
          build' = [op |-> "sections", schedule |-> s, exam |-> e, sections |-> SectionsOf(e), overlapped |-> e \in mixed]
    BY <1>1 DEF ReadSections
  <2>2. /\ build'.op = "sections" /\ {"sections", "overlapped"} \subseteq DOMAIN build'
        /\ build'.sections = SectionsOf(e) /\ build'.overlapped = (e \in mixed)
    BY <2>1
  <2>3. SectionsOf(e) \subseteq SectionRow /\ (e \notin mixed => SectionsOf(e) \in whole)
    BY DEF ExamInv, ExamTyped, SectionsOf, OnePutUnlessMixed
  <2>4. QED
    BY <1>0, <2>2, <2>3 DEF BuildOK, SectionsRead, StimuliRead, AssetsRead, Reading
<1>2. CASE ReadSectionQuestions
  <2> DEFINE read == [sections |-> SectionQuestions(build)]
  <2>1. build.op = "sections" /\ IF Asked(read) = {} THEN Fail ELSE Step("questions", read)
    BY <1>2 DEF ReadSectionQuestions
  <2>2. CASE Fail
    BY <2>2, FailedIsOK
  <2>3. CASE Asked(read) # {} /\ Step("questions", read)
    <3>1. /\ {"sections", "overlapped"} \subseteq DOMAIN build
          /\ build.sections \subseteq SectionRow
          /\ ~build.overlapped => build.sections \in whole
      BY <2>1 DEF BuildOK, SectionsRead, Reading
    <3>2. "op" \notin DOMAIN read /\ DOMAIN read = {"sections"} /\ read.sections = SectionQuestions(build)
      OBVIOUS
    <3>3. ~ \A s \in SectionQuestions(build) : s.questions = <<>>
      BY <2>3, <3>2 DEF Asked, Range
    <3> HIDE DEF read
    <3>4. /\ build'.op = "questions" /\ {"sections", "overlapped"} \subseteq DOMAIN build'
          /\ build'.sections = SectionQuestions(build) /\ build'.overlapped = build.overlapped
      <4>1. Step("questions", read)
        BY <2>3
      <4>2. /\ build'.op = "questions"
            /\ DOMAIN build \cup DOMAIN read \subseteq DOMAIN build'
            /\ \A x \in DOMAIN read : build'[x] = read[x]
            /\ \A x \in DOMAIN build \ (DOMAIN read \cup {"op"}) : build'[x] = build[x]
        BY <3>2, <4>1, StepReads
      <4>3. QED
        BY <3>1, <3>2, <4>2
    <3>5. /\ SectionQuestions(build) \subseteq SectionRow
          /\ ~build.overlapped => SectionQuestions(build) \in whole
      BY <3>1, <3>3, SectionsOrNothing
    <3>6. QED
      BY <1>0, <3>4, <3>5 DEF BuildOK, SectionsRead, StimuliRead, AssetsRead, Reading
  <2>4. QED
    BY <2>1, <2>2, <2>3
<1> DEFINE Continues == /\ build'.op \in Reading /\ {"sections", "overlapped"} \subseteq DOMAIN build'
                        /\ build'.sections = build.sections /\ build'.overlapped = build.overlapped
<1>3. ASSUME build.op \in Reading, Continues
      PROVE  SectionsRead' /\ Asked(build') = Asked(build)
  BY <1>0, <1>3 DEF BuildOK, SectionsRead, Asked
<1>4. CASE ReadQuestions
  <2> DEFINE read == [rows |-> [q \in Asked(build) |-> question[q]]]
  <2>1. CASE Fail
    BY <2>1, FailedIsOK
  <2>2. CASE Step("stimuli", read) /\ ~Fail
    <3>1. build.op = "questions" /\ \A q \in Asked(build) : question[q] # None
      BY <1>4, <2>2 DEF ReadQuestions
    <3>2. {"sections", "overlapped"} \subseteq DOMAIN build /\ build.sections \subseteq SectionRow
      BY <3>1 DEF BuildOK, SectionsRead, Reading
    <3>3. "op" \notin DOMAIN read /\ DOMAIN read = {"rows"} /\ \A q \in Asked(build) : read.rows[q] = question[q]
      OBVIOUS
    <3> HIDE DEF read
    <3>4. /\ build'.op = "stimuli" /\ {"sections", "overlapped", "rows"} \subseteq DOMAIN build'
          /\ build'.sections = build.sections /\ build'.overlapped = build.overlapped /\ build'.rows = read.rows
      <4>1. /\ build'.op = "stimuli"
            /\ DOMAIN build \cup DOMAIN read \subseteq DOMAIN build'
            /\ \A x \in DOMAIN read : build'[x] = read[x]
            /\ \A x \in DOMAIN build \ (DOMAIN read \cup {"op"}) : build'[x] = build[x]
        BY <2>2, <3>3, StepReads
      <4>2. QED
        BY <3>2, <3>3, <4>1
    <3>5. SectionsRead' /\ Asked(build') = Asked(build)
      BY <1>3, <3>1, <3>4 DEF Reading
    <3>6. \A q \in Asked(build) : question[q].stimulus \in Existing(stimulus) \cup {None}
      <4> TAKE q \in Asked(build)
      <4>1. q \in Question
        BY <3>2 DEF Asked, Range, SectionRow
      <4>2. /\ question[q].stimulus \in Stimulus \cup {None}
            /\ question[q].stimulus # None => stimulus[question[q].stimulus] # None
        BY <3>1, <4>1, QuestionThere
      <4>3. DOMAIN stimulus = Stimulus
        BY DEF BankInv, BankTyped
      <4>4. QED
        BY <4>2, <4>3 DEF Existing
    <3>7. QED
      BY <1>0, <3>3, <3>4, <3>5, <3>6 DEF BuildOK, StimuliRead, AssetsRead, Existing
  <2>3. QED
    BY <1>4, <2>1, <2>2 DEF ReadQuestions
<1>5. CASE ReadStimuli
  <2> DEFINE read == [stimuli |-> StimulusIds(build) \cap Existing(stimulus)]
  <2>1. build.op = "stimuli" /\ Step("participants", read) /\ UNCHANGED vanished
    BY <1>5 DEF ReadStimuli
  <2>2. /\ {"sections", "overlapped", "rows"} \subseteq DOMAIN build
        /\ \A q \in Asked(build) : build.rows[q].stimulus \in Existing(stimulus) \cup vanished \cup {None}
    BY <2>1 DEF BuildOK, SectionsRead, StimuliRead, Reading
  <2>3. /\ "op" \notin DOMAIN read /\ DOMAIN read = {"stimuli"}
        /\ read.stimuli = StimulusIds(build) \cap Existing(stimulus)
    OBVIOUS
  <2> HIDE DEF read
  <2>4. /\ build'.op = "participants" /\ {"sections", "overlapped", "rows", "stimuli"} \subseteq DOMAIN build'
        /\ build'.sections = build.sections /\ build'.overlapped = build.overlapped
        /\ build'.rows = build.rows /\ build'.stimuli = read.stimuli
    <3>1. /\ build'.op = "participants"
          /\ DOMAIN build \cup DOMAIN read \subseteq DOMAIN build'
          /\ \A x \in DOMAIN read : build'[x] = read[x]
          /\ \A x \in DOMAIN build \ (DOMAIN read \cup {"op"}) : build'[x] = build[x]
      BY <2>1, <2>3, StepReads
    <3>2. QED
      BY <2>2, <2>3, <3>1
  <2>5. SectionsRead' /\ Asked(build') = Asked(build)
    BY <1>3, <2>1, <2>4 DEF Reading
  <2>6. \A q \in Asked(build) : build.rows[q].stimulus \in read.stimuli \cup vanished \cup {None}
    BY <2>2, <2>3 DEF StimulusIds
  <2>7. QED
    BY <2>1, <2>4, <2>5, <2>6 DEF BuildOK, StimuliRead, AssetsRead
<1>6. CASE ReadParticipants
  <2>1. /\ build.op = "participants" /\ UNCHANGED vanished
        /\ Fail \/ \E active : Step("assets", [participants |-> [p \in active |-> participant[p]]])
    BY <1>6 DEF ReadParticipants
  <2>2. CASE Fail
    BY <2>2, FailedIsOK
  <2>3. ASSUME NEW active, Step("assets", [participants |-> [p \in active |-> participant[p]]])
        PROVE  BuildOK'
    <3> DEFINE read == [participants |-> [p \in active |-> participant[p]]]
    <3>1. /\ {"sections", "overlapped", "rows", "stimuli"} \subseteq DOMAIN build
          /\ \A q \in Asked(build) : build.rows[q].stimulus \in build.stimuli \cup vanished \cup {None}
      BY <2>1 DEF BuildOK, SectionsRead, StimuliRead, Reading
    <3>2. "op" \notin DOMAIN read /\ DOMAIN read = {"participants"} /\ Step("assets", read)
      BY <2>3
    <3> HIDE DEF read
    <3>3. /\ build'.op = "assets" /\ {"sections", "overlapped", "rows", "stimuli"} \subseteq DOMAIN build'
          /\ build'.sections = build.sections /\ build'.overlapped = build.overlapped
          /\ build'.rows = build.rows /\ build'.stimuli = build.stimuli
      <4>1. /\ build'.op = "assets"
            /\ DOMAIN build \cup DOMAIN read \subseteq DOMAIN build'
            /\ \A x \in DOMAIN build \ (DOMAIN read \cup {"op"}) : build'[x] = build[x]
        BY <3>2, StepReads
      <4>2. QED
        BY <3>1, <3>2, <4>1
    <3>4. SectionsRead' /\ Asked(build') = Asked(build)
      BY <1>3, <2>1, <3>3 DEF Reading
    <3>5. QED
      BY <2>1, <3>1, <3>3, <3>4 DEF BuildOK, StimuliRead, AssetsRead
  <2>4. QED
    BY <2>1, <2>2, <2>3
<1>7. CASE ReadAssets
  <2> DEFINE read == [assets |-> CollectAssetIds(build)]
  <2>1. build.op = "assets" /\ UNCHANGED vanished /\ (Fail \/ Step("composed", read))
    BY <1>7 DEF ReadAssets
  <2>2. CASE Fail
    BY <2>2, FailedIsOK
  <2>3. CASE Step("composed", read)
    <3>1. /\ {"sections", "overlapped", "rows", "stimuli"} \subseteq DOMAIN build
          /\ \A q \in Asked(build) : build.rows[q].stimulus \in build.stimuli \cup vanished \cup {None}
      BY <2>1 DEF BuildOK, SectionsRead, StimuliRead, Reading
    <3>2. "op" \notin DOMAIN read /\ DOMAIN read = {"assets"} /\ read.assets = CollectAssetIds(build)
      OBVIOUS
    <3> HIDE DEF read
    <3>3. /\ build'.op = "composed" /\ {"sections", "overlapped", "rows", "stimuli"} \subseteq DOMAIN build'
          /\ build'.sections = build.sections /\ build'.overlapped = build.overlapped
          /\ build'.rows = build.rows /\ build'.stimuli = build.stimuli /\ build'.assets = CollectAssetIds(build)
      <4>1. /\ build'.op = "composed"
            /\ DOMAIN build \cup DOMAIN read \subseteq DOMAIN build'
            /\ \A x \in DOMAIN read : build'[x] = read[x]
            /\ \A x \in DOMAIN build \ (DOMAIN read \cup {"op"}) : build'[x] = build[x]
        BY <2>3, <3>2, StepReads
      <4>2. QED
        BY <3>1, <3>2, <4>1
    <3>4. SectionsRead' /\ Asked(build') = Asked(build)
      BY <1>3, <2>1, <3>3 DEF Reading
    <3>5. \A q \in Asked(build) :
            MediaOf[build.rows[q].content] \cup UNION {MediaOf[s] : s \in build.stimuli} \subseteq CollectAssetIds(build)
      <4> TAKE q \in Asked(build)
      <4> DEFINE media(x) == MediaOf[build.rows[x].content]
                 all == {media(x) : x \in Asked(build)}
                 ofStimuli == UNION {MediaOf[s] : s \in build.stimuli}
      <4>1. CollectAssetIds(build) = (UNION all) \cup ofStimuli
        BY DEF CollectAssetIds
      <4>2. media(q) \in all
        OBVIOUS
      <4> HIDE DEF media, all, ofStimuli
      <4>3. media(q) \cup ofStimuli \subseteq CollectAssetIds(build)
        BY <4>1, <4>2
      <4>4. QED
        BY <4>3 DEF media, ofStimuli
    <3>6. QED
      BY <2>1, <3>1, <3>3, <3>4, <3>5 DEF BuildOK, StimuliRead, AssetsRead
  <2>4. QED
    BY <2>1, <2>2, <2>3
<1>8. QED
  BY <1>1, <1>2, <1>4, <1>5, <1>6, <1>7 DEF Compose

\* Structures that were written stay known.
LEMMA WholeGrows == AuthoringNext => whole \subseteq whole'
<1> SUFFICES ASSUME AuthoringNext
             PROVE  whole \subseteq whole'
  OBVIOUS
<1>1. CASE BankNext
  BY <1>1 DEF BankNext, CreateBank, DeleteBank, CreateStimulus, DeleteStimulus, BeginInsert, EndInsert,
              BeginPatch, EndPatch, DeleteQuestion, structured
<1>2. CASE CommitPut
  BY <1>2 DEF CommitPut, structured
<1>3. CASE BeginPut \/ DeleteSections \/ CreateExam \/ DeleteExam({}) \/ AuthorDies
  BY <1>3 DEF BeginPut, DeleteSections, CreateExam, DeleteExam, AuthorDies, structured
<1>4. QED
  BY <1>1, <1>2, <1>3 DEF AuthoringNext, ExamNext

\* Authors go on while a package is built.
LEMMA AuthorsKeepBuilds ==
  BuildOK /\ UNCHANGED build /\ whole \subseteq whole' /\ Vanishes => BuildOK'
<1> SUFFICES ASSUME BuildOK, UNCHANGED build, whole \subseteq whole', Vanishes
             PROVE  BuildOK'
  OBVIOUS
<1>1. SectionsRead' /\ AssetsRead'
  BY DEF BuildOK, SectionsRead, AssetsRead, Asked
<1>2. vanished \subseteq vanished' /\ Existing(stimulus) \subseteq Existing(stimulus)' \cup vanished'
  BY DEF Vanishes
<1>3. StimuliRead'
  BY <1>2 DEF BuildOK, StimuliRead, Asked
<1>4. QED
  BY <1>1, <1>3 DEF BuildOK

OfficeInv == BankInv /\ ExamInv /\ BuildOK

\* To authors and to administrators the back office takes their own steps or none.
LEMMA OfficeSteps ==
  BackOfficeNext => [AuthoringNext]_authoringVars /\ [RosterNext]_rosterVars
BY DEF BackOfficeNext

LEMMA OfficeKeeps ==
  OfficeInv /\ [BackOfficeNext]_<<authoringVars, rosterVars, storageVars, composeVars>> => OfficeInv'
<1> SUFFICES ASSUME OfficeInv, [BackOfficeNext]_<<authoringVars, rosterVars, storageVars, composeVars>>
             PROVE  OfficeInv'
  OBVIOUS
<1>1. [AuthoringNext]_authoringVars /\ [RosterNext]_rosterVars
  BY OfficeSteps
<1>2. BankInv' /\ ExamInv'
  BY <1>1, BankKeeps, ExamKeeps DEF OfficeInv
<1>3. CASE Compose /\ UNCHANGED authoringVars
  BY <1>2, <1>3, ComposeKeeps DEF OfficeInv
<1>4. CASE AuthoringNext /\ Vanishes /\ UNCHANGED build
  BY <1>2, <1>4, WholeGrows, AuthorsKeepBuilds DEF OfficeInv
<1>5. CASE UNCHANGED <<authoringVars, composeVars>>
  <2>1. UNCHANGED <<build, vanished, whole, stimulus>>
    BY <1>5 DEF authoringVars, tables, structured, composeVars
  <2>2. BuildOK'
    BY <2>1 DEF OfficeInv, BuildOK, SectionsRead, StimuliRead, AssetsRead, Asked, Existing
  <2>3. QED
    BY <1>2, <2>2 DEF OfficeInv
<1>6. QED
  BY <1>2, <1>3, <1>4, <1>5 DEF BackOfficeNext, OfficeInv

LEMMA OfficeHolds == BackOfficeSpec => []OfficeInv
<1>1. AuthoringInit /\ ComposeInit => OfficeInv
  BY BankBegins, ExamBegins, BuildBegins DEF OfficeInv
<1>2. OfficeInv /\ [BackOfficeNext]_<<authoringVars, rosterVars, storageVars, composeVars>> => OfficeInv'
  BY OfficeKeeps
<1>3. QED
  BY <1>1, <1>2, PTL DEF BackOfficeSpec

\* The back office of package-builder.ts, banks.ts, exams.ts, participants.ts and schedules.ts:
\* whatever a build reads in between, authors and administrators behave as if they were alone,
\* and what is proved of Authoring and of Roster holds of the whole.
THEOREM OfficeIsItsParts == BackOfficeSpec => AuthoringSpec /\ RosterSpec
<1>1. [BackOfficeNext]_<<authoringVars, rosterVars, storageVars, composeVars>>
        => [AuthoringNext]_authoringVars /\ [RosterNext]_rosterVars
  BY OfficeSteps
<1>2. QED
  BY <1>1, PTL DEF BackOfficeSpec, AuthoringSpec, RosterSpec

\* arsitektur.md: a package is a snapshot.  composePackage (package-builder.ts) reads sections
\* and their questions in two statements, with structures replaced in between at will: what it
\* composes is one structure as it was written, unless two PUTs had overlapped on the exam.
THEOREM PackagesAreStructures == BackOfficeSpec => []PackageIsStructure
<1>1. OfficeInv => PackageIsStructure
  BY DEF OfficeInv, BuildOK, SectionsRead, Reading, PackageIsStructure, Composed
<1>2. QED
  BY <1>1, OfficeHolds, PTL

\* Stimuli and media of a package (package-builder.ts) are read after the questions that refer
\* to them: none is missing, but for stimuli that are deleted while it is built.
THEOREM PackagesAreClosed == BackOfficeSpec => []PackageIsClosed
<1>1. OfficeInv => PackageIsClosed
  BY DEF OfficeInv, BuildOK, StimuliRead, AssetsRead, PackageIsClosed, Composed
<1>2. QED
  BY <1>1, OfficeHolds, PTL
--------------------------------------------------------------------------------
(* All tables.                                                               *)

\* The API runs on foreign keys and on checks a statement or two before what they are for
\* (questions.ts, exams.ts, participants.ts, schedules.ts, sites.ts): at any time rows are well
\* formed and refer to rows that exist, nobody is on a list of proctors twice, and a list is that
\* of one PUT unless two of them overlapped.
THEOREM TablesStaySound == BackOfficeSpec /\ AccessSpec => []BackOfficeTypeOK
<1>1. BankInv /\ ExamInv /\ [AuthoringNext]_authoringVars => BankInv' /\ ExamInv'
  BY BankKeeps, ExamKeeps
<1>2. BankInv /\ ExamInv => AuthoringTypeOK
  BY ExamInvImplies
<1>3. AuthoringSpec => []AuthoringTypeOK
  BY <1>1, <1>2, BankBegins, ExamBegins, PTL DEF AuthoringSpec
<1>4. RosterInv => RosterTypeOK
  BY RosterInvImplies
<1>5. RosterSpec => []RosterTypeOK
  BY <1>4, RosterHoldsAlways, PTL
<1>6. AuthoringTypeOK /\ RosterTypeOK /\ AccessTypeOK => BackOfficeTypeOK
  BY DEF BackOfficeTypeOK
<1>7. QED
  BY <1>3, <1>5, <1>6, OfficeIsItsParts, ProctorsAreOneList, PTL
================================================================================
