------------------------- MODULE AccountsAndFilesProofs -------------------------
(***************************************************************************)
(* Proofs about the accounts of Access and the files of Storage, which have   *)
(* nothing in common but the tables they are kept in: for any sets of users,  *)
(* sites, entries, media, files and requests, and any bounds.                 *)
(***************************************************************************)
EXTENDS Access, Storage, TLAPS

(***************************************************************************)
(* Accounts.                                                                *)
(***************************************************************************)
AccountsTypeOK ==
  /\ user \in [User -> [role : Roles, active : BOOLEAN] \cup {None}]
  /\ desk \subseteq User
  /\ overruled \in BOOLEAN

\* An id is not given to two accounts.
UnusedAreFree == \A u \in User \cap unused : user[u] = None

\* A step changes what it changes of accounts on behalf of an administrator, who then
\* is still one: the inductive invariant adds that a new account replaces none.
AdminInv == AccountsTypeOK /\ UnusedAreFree /\ AdminRemains

LEMMA AdminIsNoNone ==
  ASSUME NEW role \in Roles, NEW active \in BOOLEAN
  PROVE  Account(role, active) # None /\ Account(role, active) \in [role : Roles, active : BOOLEAN]
BY NoneAssumption DEF Account, Roles

LEMMA AccessBegins == AccessInit => AdminInv
<1> SUFFICES ASSUME AccessInit PROVE AdminInv
  OBVIOUS
<1>1. Account("admin", TRUE) # None /\ Account("admin", TRUE) \in [role : Roles, active : BOOLEAN]
  BY AdminIsNoNone DEF Roles
<1>2. AccountsTypeOK
  BY <1>1 DEF AccessInit, AccountsTypeOK
<1>3. UnusedAreFree
  BY IdsAssumption DEF AccessInit, UnusedAreFree
<1>4. ActiveAdmin(First)
  BY <1>1, IdsAssumption DEF AccessInit, ActiveAdmin
<1>5. QED
  BY <1>2, <1>3, <1>4, IdsAssumption DEF AdminInv, AdminRemains

\* Whoever acts and is not overruling anybody is an active administrator.
LEMMA ActorIsAdmin ==
  ASSUME AccountsTypeOK, NEW a \in desk, Overrules(a), ~overruled'
  PROVE  a \in User /\ ActiveAdmin(a)
BY DEF AccountsTypeOK, Overrules

LEMMA CreateKeeps == AdminInv /\ CreateUser => AdminInv'
<1> SUFFICES ASSUME AdminInv, CreateUser PROVE AdminInv'
  OBVIOUS
<1>0. AccountsTypeOK /\ UnusedAreFree
  BY DEF AdminInv
<1>1. PICK a \in desk, u \in User \cap unused, role \in Roles, active \in BOOLEAN :
        /\ user' = [user EXCEPT ![u] = Account(role, active)]
        /\ unused' = unused \ {u} /\ desk' = desk /\ Overrules(a)
  BY DEF CreateUser
<1>2. Account(role, active) \in [role : Roles, active : BOOLEAN]
  BY AdminIsNoNone
<1>3. AccountsTypeOK'
  BY <1>0, <1>1, <1>2 DEF AccountsTypeOK, Overrules, ActiveAdmin
<1>4. UnusedAreFree'
  BY <1>0, <1>1 DEF AccountsTypeOK, UnusedAreFree
<1>5. ASSUME ~overruled' PROVE a \in User /\ ActiveAdmin(a)'
  <2>1. a \in User /\ ActiveAdmin(a)
    BY <1>0, <1>1, <1>5, ActorIsAdmin
  <2>2. user[u] = None
    BY <1>0 DEF UnusedAreFree
  <2>3. a # u
    BY <2>1, <2>2 DEF ActiveAdmin
  <2>4. user'[a] = user[a]
    BY <1>0, <1>1, <2>1, <2>3 DEF AccountsTypeOK
  <2>5. QED
    BY <2>1, <2>4 DEF ActiveAdmin
<1>6. QED
  BY <1>3, <1>4, <1>5 DEF AdminInv, AdminRemains

\* What a PATCH makes of a row.
AccountPatched(row, b) ==
  Account(IF "role" \in DOMAIN b THEN b.role ELSE row.role, IF "active" \in DOMAIN b THEN b.active ELSE row.active)

LEMMA PatchedType ==
  ASSUME NEW row \in [role : Roles, active : BOOLEAN], NEW b \in UserBodies
  PROVE  AccountPatched(row, b) \in [role : Roles, active : BOOLEAN]
<1>1. CASE \E r \in Roles : b = [role |-> r]
  BY <1>1 DEF AccountPatched, Account
<1>2. CASE \E v \in BOOLEAN : b = [active |-> v]
  BY <1>2 DEF AccountPatched, Account
<1>3. QED
  BY <1>1, <1>2 DEF UserBodies

LEMMA PatchKeeps == AdminInv /\ PatchUser => AdminInv'
<1> SUFFICES ASSUME AdminInv, PatchUser PROVE AdminInv'
  OBVIOUS
<1>0. AccountsTypeOK /\ UnusedAreFree
  BY DEF AdminInv
<1>1. PICK a \in desk, u \in Existing(user), b \in UserBodies :
        /\ OwnAccountKept(a, u, b)
        /\ user' = [user EXCEPT ![u] = AccountPatched(user[u], b)]
        /\ unused' = unused /\ desk' = desk /\ Overrules(a)
  BY DEF PatchUser, AccountPatched
<1>2. u \in User /\ user[u] # None /\ user[u] \in [role : Roles, active : BOOLEAN]
  BY <1>0 DEF AccountsTypeOK, Existing
<1>3. AccountPatched(user[u], b) \in [role : Roles, active : BOOLEAN]
  BY <1>2, PatchedType
<1>4. AccountsTypeOK'
  BY <1>0, <1>1, <1>2, <1>3 DEF AccountsTypeOK, Overrules, ActiveAdmin
<1>5. UnusedAreFree'
  BY <1>0, <1>1, <1>2 DEF AccountsTypeOK, UnusedAreFree
<1>6. ASSUME ~overruled' PROVE a \in User /\ ActiveAdmin(a)'
  <2>1. a \in User /\ ActiveAdmin(a)
    BY <1>0, <1>1, <1>6, ActorIsAdmin
  <2>2. CASE a # u
    BY <1>0, <1>1, <2>1, <2>2 DEF AccountsTypeOK, ActiveAdmin
  <2>3. CASE a = u
    <3>1. user[a].role = "admin" /\ user[a].active = TRUE
      BY <2>1 DEF ActiveAdmin, Account
    <3>2. AccountPatched(user[a], b) = Account("admin", TRUE)
      BY <1>1, <2>3, <3>1 DEF OwnAccountKept, AccountPatched, UserBodies
    <3>3. user'[a] = Account("admin", TRUE)
      BY <1>0, <1>1, <2>1, <2>3, <3>2 DEF AccountsTypeOK
    <3>4. QED
      BY <2>1, <3>3 DEF ActiveAdmin
  <2>4. QED
    BY <2>2, <2>3, <2>1
<1>7. QED
  BY <1>4, <1>5, <1>6 DEF AdminInv, AdminRemains

LEMMA DeleteKeeps == AdminInv /\ DeleteUser => AdminInv'
<1> SUFFICES ASSUME AdminInv, DeleteUser PROVE AdminInv'
  OBVIOUS
<1>0. AccountsTypeOK /\ UnusedAreFree
  BY DEF AdminInv
<1>1. PICK a \in desk, u \in Existing(user) :
        /\ a # u /\ user' = [user EXCEPT ![u] = None]
        /\ unused' = unused /\ desk' = desk /\ Overrules(a)
  BY DEF DeleteUser
<1>2. AccountsTypeOK'
  BY <1>0, <1>1 DEF AccountsTypeOK, Overrules, ActiveAdmin
<1>3. UnusedAreFree'
  BY <1>0, <1>1 DEF AccountsTypeOK, UnusedAreFree
<1>4. ASSUME ~overruled' PROVE a \in User /\ ActiveAdmin(a)'
  <2>1. a \in User /\ ActiveAdmin(a)
    BY <1>0, <1>1, <1>4, ActorIsAdmin
  <2>2. QED
    BY <1>0, <1>1, <2>1 DEF AccountsTypeOK, ActiveAdmin
<1>5. QED
  BY <1>2, <1>3, <1>4 DEF AdminInv, AdminRemains

\* All other steps leave the rows of accounts alone, and give no id free.
LEMMA OthersKeep ==
  ASSUME AdminInv, user' = user, overruled' = overruled, desk' \subseteq User, unused' \subseteq unused
  PROVE  AdminInv'
BY DEF AdminInv, AccountsTypeOK, UnusedAreFree, AdminRemains, ActiveAdmin

LEMMA AccessStep == AdminInv /\ [AccessNext]_accessVars => AdminInv'
<1> SUFFICES ASSUME AdminInv, [AccessNext]_accessVars PROVE AdminInv'
  OBVIOUS
<1>0. desk \subseteq User
  BY DEF AdminInv, AccountsTypeOK
<1>1. CASE Login
  BY <1>0, <1>1, OthersKeep DEF Login
<1>2. CASE TokenExpires
  BY <1>0, <1>2, OthersKeep DEF TokenExpires
<1>3. CASE CreateUser
  BY <1>3, CreateKeeps
<1>4. CASE PatchUser
  BY <1>4, PatchKeeps
<1>5. CASE DeleteUser
  BY <1>5, DeleteKeeps
<1>6. CASE PostNext
  BY <1>0, <1>6, OthersKeep
  DEF PostNext, CreatePost, PatchPost, RotateSecret, DeletePost, BeginAssign, DeleteDuties,
      CommitAssign, ClerkDies, accounts
<1>7. CASE SiteNext
  BY <1>0, <1>7, OthersKeep
  DEF SiteNext, EnterSecret, SiteTokenExpires, FetchProctors, Act, Auth, SendLog, accounts
<1>8. CASE UNCHANGED accessVars
  BY <1>0, <1>8, OthersKeep DEF accessVars, accounts
<1>9. QED
  BY <1>1, <1>2, <1>3, <1>4, <1>5, <1>6, <1>7, <1>8 DEF AccessNext, UserNext

\* users.ts: there always is an administrator who can log in, as long as nobody acts on a
\* token after having been deactivated, demoted or deleted.
THEOREM AdministratorRemains == AccessSpec => []AdminRemains
<1>1. AdminInv => AdminRemains
  BY DEF AdminInv
<1>2. QED
  BY <1>1, AccessBegins, AccessStep, PTL DEF AccessSpec

(***************************************************************************)
(* Sites, their proctors and their logs.                                    *)
(***************************************************************************)
AccountRow == [role : Roles, active : BOOLEAN]
PostRow == [secret : Nat, active : BOOLEAN]
DeedRow == [post : Post, user : User]
DutyRow == [post : Post, user : User, list : Nat]

DutiesOf(s) == {d \in duty : d.post = s}

\* Tables and what a site keeps.
PlacesTypeOK ==
  /\ user \in [User -> AccountRow \cup {None}] /\ desk \subseteq User
  /\ post \in [Post -> PostRow \cup {None}] /\ secrets \in Nat
  /\ token \subseteq Post /\ local \in [Post -> SUBSET User]

\* An entry is written before it is sent.
LogOK ==
  /\ deed \in [Deed -> DeedRow \cup {None}]
  /\ \A d \in unsent \cup logged : d \in Deed /\ deed[d] # None

\* Duties are of sites and of users that exist, and of one list unless PUTs overlapped.
RowsRefer == \A d \in duty : post[d.post] # None /\ user[d.user] # None /\ d.list <= lists
OneList ==
  \A d, e \in duty : d.post = e.post /\ d # e => d.user # e.user /\ (d.list = e.list \/ d.post \in blended)

\* A PUT that has deleted has seen all there was: where no list was written since, all there is.
ClerkOK(r) ==
  /\ r.op \in {"assign", "replace"} => r.post \in Post /\ r.chosen \subseteq User
  /\ r.op = "replace" => /\ r.began \in Nat /\ r.began <= lists
                         /\ r.began = lists => DutiesOf(r.post) \subseteq r.seen

DutyTypeOK == duty \subseteq DutyRow /\ lists \in Nat /\ DOMAIN clerk = Clerk

DutyOK == DutyTypeOK /\ RowsRefer /\ OneList /\ \A c \in Clerk : ClerkOK(clerk[c])

PlacesInv == PlacesTypeOK /\ LogOK /\ DutyOK

LEMMA RowsAreNoNone ==
  /\ \A row \in AccountRow : row # None
  /\ \A row \in PostRow : row # None
  /\ \A row \in DeedRow : row # None
BY NoneAssumption DEF AccountRow, PostRow, DeedRow, Roles

LEMMA PlacesBegin == AccessInit => PlacesInv
<1> SUFFICES ASSUME AccessInit PROVE PlacesInv
  OBVIOUS
<1>1. Account("admin", TRUE) \in AccountRow
  BY DEF Account, AccountRow, Roles
<1>2. PlacesTypeOK
  BY <1>1 DEF AccessInit, PlacesTypeOK
<1>3. LogOK
  BY DEF AccessInit, LogOK
<1>4. \A c \in Clerk : ClerkOK(clerk[c])
  BY DEF AccessInit, ClerkOK, Idle
<1>5. QED
  BY <1>2, <1>3, <1>4 DEF AccessInit, PlacesInv, DutyOK, DutyTypeOK, RowsRefer, OneList

(* Duties. *)

\* Rows of accounts and sites go only with the duties that refer to them.
LEMMA DutiesLeft ==
  ASSUME DutyOK, duty' \subseteq duty, UNCHANGED <<clerk, lists, blended>>,
         \A d \in duty' : post'[d.post] # None /\ user'[d.user] # None
  PROVE  DutyOK'
<1>1. DutyTypeOK' /\ RowsRefer' /\ OneList'
  BY DEF DutyOK, DutyTypeOK, RowsRefer, OneList
<1>2. ASSUME NEW c \in Clerk PROVE ClerkOK(clerk[c])'
  BY DEF DutyOK, ClerkOK, DutiesOf
<1>3. QED
  BY <1>1, <1>2 DEF DutyOK

LEMMA ClerkMoves ==
  ASSUME DutyOK, UNCHANGED <<user, post, duty, lists, blended>>,
         NEW c \in Clerk, NEW r, ClerkOK(r), clerk' = [clerk EXCEPT ![c] = r]
  PROVE  DutyOK'
<1>1. DutyTypeOK' /\ RowsRefer' /\ OneList'
  BY DEF DutyOK, DutyTypeOK, RowsRefer, OneList
<1>2. ASSUME NEW b \in Clerk PROVE ClerkOK(clerk[b])'
  <2>1. ClerkOK(clerk'[b])
    BY DEF DutyOK, DutyTypeOK
  <2>2. QED
    BY <2>1 DEF ClerkOK, DutiesOf
<1>3. QED
  BY <1>1, <1>2 DEF DutyOK

LEMMA IdleClerk == ClerkOK(Idle)
BY DEF ClerkOK, Idle

\* What the transaction of a PUT leaves: the rows it has not seen, and its own.
LEMMA ListWritten ==
  ASSUME PlacesTypeOK, DutyOK, NEW c \in Clerk, At(clerk, c, "replace"),
         NEW s, s = clerk[c].post, NEW chosen, chosen = clerk[c].chosen,
         NEW left, left = duty \ clerk[c].seen,
         chosen # {} => /\ ~ \E d \in left : d.post = s /\ d.user \in chosen
                        /\ post[s] # None /\ \A u \in chosen : user[u] # None,
         duty' = left \cup {[post |-> s, user |-> u, list |-> lists + 1] : u \in chosen},
         lists' = lists + 1,
         blended' = IF clerk[c].began = lists THEN blended \ {s} ELSE blended \cup {s},
         clerk' = [clerk EXCEPT ![c] = Idle], UNCHANGED <<user, post>>
  PROVE  DutyOK'
<1> DEFINE Fresh == {[post |-> s, user |-> u, list |-> lists + 1] : u \in chosen}
<1>0. DutyTypeOK /\ RowsRefer /\ OneList /\ ClerkOK(clerk[c])
  BY DEF DutyOK
<1>1. /\ s \in Post /\ chosen \subseteq User /\ lists \in Nat
      /\ clerk[c].began = lists => \A d \in left : d.post # s
  BY <1>0 DEF ClerkOK, At, DutyTypeOK, DutiesOf
<1>2. \A d \in Fresh : d.post = s /\ d.user \in chosen /\ d.list = lists + 1 /\ d \in DutyRow
  BY <1>1 DEF DutyRow
<1>3. \A d, e \in Fresh : d # e => d.user # e.user
  OBVIOUS
<1>4. duty' = left \cup Fresh /\ left \subseteq duty
  OBVIOUS
<1> HIDE DEF Fresh
<1>5. DutyTypeOK'
  BY <1>0, <1>1, <1>2, <1>4 DEF DutyTypeOK
<1>6. RowsRefer'
  <2>1. ASSUME NEW d \in left PROVE post[d.post] # None /\ user[d.user] # None /\ d.list <= lists + 1
    <3>1. d \in DutyRow /\ d.list <= lists /\ post[d.post] # None /\ user[d.user] # None
      BY <1>0, <1>4 DEF RowsRefer, DutyTypeOK
    <3>2. QED
      BY <1>1, <3>1 DEF DutyRow
  <2>2. ASSUME NEW d \in Fresh PROVE post[d.post] # None /\ user[d.user] # None /\ d.list <= lists + 1
    BY <1>1, <1>2
  <2>3. QED
    BY <1>4, <2>1, <2>2 DEF RowsRefer
<1>7. OneList'
  <2> SUFFICES ASSUME NEW d \in duty', NEW e \in duty', d.post = e.post, d # e
               PROVE  d.user # e.user /\ (d.list = e.list \/ d.post \in blended')
    BY DEF OneList
  <2>1. CASE d \in left /\ e \in left
    <3>1. d.user # e.user /\ (d.list = e.list \/ d.post \in blended)
      BY <1>0, <1>4, <2>1 DEF OneList
    <3>2. clerk[c].began = lists => d.post # s
      BY <1>1, <2>1
    <3>3. QED
      BY <3>1, <3>2
  <2>2. CASE d \in Fresh /\ e \in Fresh
    BY <1>2, <1>3, <2>2
  <2>3. ASSUME NEW x \in left, NEW y \in Fresh, x.post = y.post
        PROVE  x.user # y.user /\ x.post \in blended'
    <3>1. x.post = s /\ y.user \in chosen /\ chosen # {}
      BY <1>2, <2>3
    <3>2. clerk[c].began # lists
      BY <1>1, <3>1
    <3>3. x.user \notin chosen
      BY <3>1
    <3>4. QED
      BY <3>1, <3>2, <3>3
  <2>4. QED
    BY <1>4, <2>1, <2>2, <2>3
<1>8. ASSUME NEW b \in Clerk PROVE ClerkOK(clerk[b])'
  <2>1. CASE b = c
    <3>1. clerk'[b] = Idle
      BY <1>0, <2>1 DEF DutyTypeOK
    <3>2. QED
      BY <3>1 DEF ClerkOK, Idle
  <2>2. CASE b # c
    <3>1. clerk'[b] = clerk[b] /\ ClerkOK(clerk[b])
      BY <2>2 DEF DutyOK, DutyTypeOK
    <3>2. QED
      BY <1>1, <3>1 DEF ClerkOK
  <2>3. QED
    BY <2>1, <2>2
<1>9. QED
  BY <1>5, <1>6, <1>7, <1>8 DEF DutyOK

(* One lemma per table. *)

LEMMA UserStep == PlacesInv /\ UserNext => PlacesInv'
<1> SUFFICES ASSUME PlacesInv, UserNext PROVE PlacesInv'
  OBVIOUS
<1>0. PlacesTypeOK /\ LogOK /\ DutyOK
  BY DEF PlacesInv
<1>1. UNCHANGED <<places, clerk, lists, blended, outside, logged>>
  BY DEF UserNext, Login, TokenExpires, CreateUser, PatchUser, DeleteUser, lineup
<1>2. LogOK'
  BY <1>0, <1>1 DEF LogOK, outside
<1>3. CASE Login \/ TokenExpires
  <2>1. user' = user /\ desk' \subseteq User /\ duty' = duty
    BY <1>0, <1>3 DEF Login, TokenExpires, PlacesTypeOK, lineup
  <2>2. PlacesTypeOK'
    BY <1>0, <1>1, <2>1 DEF PlacesTypeOK, places, outside
  <2>3. DutyOK'
    BY <1>0, <1>1, <2>1, DutiesLeft DEF DutyOK, RowsRefer, places
  <2>4. QED
    BY <1>2, <2>2, <2>3 DEF PlacesInv
<1>4. CASE CreateUser
  <2>1. PICK u \in User, role \in Roles, active \in BOOLEAN :
          user' = [user EXCEPT ![u] = Account(role, active)] /\ desk' = desk /\ duty' = duty
    BY <1>4 DEF CreateUser, lineup
  <2>2. Account(role, active) \in AccountRow /\ Account(role, active) # None
    BY RowsAreNoNone DEF Account, AccountRow
  <2>3. \A x \in User : user[x] # None => user'[x] # None
    BY <1>0, <2>1, <2>2 DEF PlacesTypeOK
  <2>4. PlacesTypeOK'
    BY <1>0, <1>1, <2>1, <2>2 DEF PlacesTypeOK, places, outside
  <2>5. DutyOK'
    BY <1>0, <1>1, <2>1, <2>3, DutiesLeft DEF DutyOK, DutyTypeOK, DutyRow, RowsRefer, places
  <2>6. QED
    BY <1>2, <2>4, <2>5 DEF PlacesInv
<1>5. CASE PatchUser
  <2>1. PICK u \in Existing(user), b \in UserBodies :
          user' = [user EXCEPT ![u] = AccountPatched(user[u], b)] /\ desk' = desk /\ duty' = duty
    BY <1>5 DEF PatchUser, AccountPatched, lineup
  <2>2. u \in User /\ user[u] \in AccountRow
    BY <1>0 DEF PlacesTypeOK, Existing
  <2>3. AccountPatched(user[u], b) \in AccountRow /\ AccountPatched(user[u], b) # None
    BY <2>2, PatchedType, RowsAreNoNone DEF AccountRow
  <2>4. \A x \in User : user[x] # None => user'[x] # None
    BY <1>0, <2>1, <2>3 DEF PlacesTypeOK
  <2>5. PlacesTypeOK'
    BY <1>0, <1>1, <2>1, <2>3 DEF PlacesTypeOK, places, outside
  <2>6. DutyOK'
    BY <1>0, <1>1, <2>1, <2>4, DutiesLeft DEF DutyOK, DutyTypeOK, DutyRow, RowsRefer, places
  <2>7. QED
    BY <1>2, <2>5, <2>6 DEF PlacesInv
<1>6. CASE DeleteUser
  <2>1. PICK u \in Existing(user) :
          /\ user' = [user EXCEPT ![u] = None] /\ desk' = desk
          /\ duty' = {d \in duty : d.user # u}
    BY <1>6 DEF DeleteUser
  <2>2. PlacesTypeOK'
    BY <1>0, <1>1, <2>1 DEF PlacesTypeOK, places, outside
  <2>3. \A d \in duty' : post'[d.post] # None /\ user'[d.user] # None
    BY <1>0, <1>1, <2>1 DEF PlacesTypeOK, DutyOK, DutyTypeOK, DutyRow, RowsRefer, places
  <2>4. DutyOK'
    BY <1>0, <1>1, <2>1, <2>3, DutiesLeft
  <2>5. QED
    BY <1>2, <2>2, <2>4 DEF PlacesInv
<1>7. QED
  BY <1>3, <1>4, <1>5, <1>6 DEF UserNext

\* Sites come, change and go.
LEMMA PlaceStep ==
  ASSUME PlacesInv, CreatePost \/ PatchPost \/ RotateSecret \/ DeletePost
  PROVE  PlacesInv'
<1>0. PlacesTypeOK /\ LogOK /\ DutyOK
  BY DEF PlacesInv
<1>1. UNCHANGED <<accounts, clerk, lists, blended, outside>>
  BY DEF CreatePost, PatchPost, RotateSecret, DeletePost, lineup
<1>2. LogOK'
  <2>1. logged' \subseteq logged
    BY DEF CreatePost, PatchPost, RotateSecret, DeletePost
  <2>2. QED
    BY <1>0, <1>1, <2>1 DEF LogOK, outside
<1>3. CASE CreatePost \/ PatchPost \/ RotateSecret
  <2>1. PICK s \in Post, row \in PostRow :
          post' = [post EXCEPT ![s] = row] /\ secrets' \in Nat /\ duty' = duty
    <3>1. CASE CreatePost
      <4>1. PICK s \in Post, active \in BOOLEAN : post' = [post EXCEPT ![s] = [secret |-> secrets', active |-> active]]
        BY <3>1 DEF CreatePost
      <4>2. secrets' \in Nat /\ duty' = duty
        BY <1>0, <3>1 DEF CreatePost, NewSecret, PlacesTypeOK, lineup
      <4>3. QED
        BY <4>1, <4>2 DEF PostRow
    <3>2. CASE PatchPost
      <4>1. PICK s \in Existing(post), active \in BOOLEAN : post' = [post EXCEPT ![s].active = active]
        BY <3>2 DEF PatchPost
      <4>2. s \in Post /\ post[s] \in PostRow
        BY <1>0 DEF PlacesTypeOK, Existing
      <4>3. [post[s] EXCEPT !.active = active] \in PostRow
        BY <4>2 DEF PostRow
      <4>4. secrets' \in Nat /\ duty' = duty
        BY <1>0, <3>2 DEF PatchPost, PlacesTypeOK, lineup
      <4>5. post' = [post EXCEPT ![s] = [post[s] EXCEPT !.active = active]]
        BY <4>1
      <4>6. QED
        BY <4>2, <4>3, <4>4, <4>5
    <3>3. CASE RotateSecret
      <4>1. PICK s \in Existing(post) : post' = [post EXCEPT ![s].secret = secrets']
        BY <3>3 DEF RotateSecret
      <4>2. s \in Post /\ post[s] \in PostRow
        BY <1>0 DEF PlacesTypeOK, Existing
      <4>3. secrets' \in Nat /\ duty' = duty
        BY <1>0, <3>3 DEF RotateSecret, NewSecret, PlacesTypeOK, lineup
      <4>4. [post[s] EXCEPT !.secret = secrets'] \in PostRow
        BY <4>2, <4>3 DEF PostRow
      <4>5. post' = [post EXCEPT ![s] = [post[s] EXCEPT !.secret = secrets']]
        BY <4>1
      <4>6. QED
        BY <4>2, <4>3, <4>4, <4>5
    <3>4. QED
      BY <1>3, <3>1, <3>2, <3>3
  <2>2. \A x \in Post : post[x] # None => post'[x] # None
    BY <1>0, <2>1, RowsAreNoNone DEF PlacesTypeOK
  <2>3. PlacesTypeOK'
    BY <1>0, <1>1, <2>1 DEF PlacesTypeOK, accounts, outside
  <2>4. DutyOK'
    BY <1>0, <1>1, <2>1, <2>2, DutiesLeft DEF DutyOK, DutyTypeOK, DutyRow, RowsRefer, accounts
  <2>5. QED
    BY <1>2, <2>3, <2>4 DEF PlacesInv
<1>4. CASE DeletePost
  <2>1. PICK s \in Existing(post) :
          /\ post' = [post EXCEPT ![s] = None] /\ secrets' = secrets
          /\ duty' = {d \in duty : d.post # s}
    BY <1>4 DEF DeletePost
  <2>2. PlacesTypeOK'
    BY <1>0, <1>1, <2>1 DEF PlacesTypeOK, accounts, outside
  <2>3. \A d \in duty' : post'[d.post] # None /\ user'[d.user] # None
    BY <1>0, <1>1, <2>1 DEF PlacesTypeOK, DutyOK, DutyTypeOK, DutyRow, RowsRefer, accounts
  <2>4. DutyOK'
    BY <1>0, <1>1, <2>1, <2>3, DutiesLeft
  <2>5. QED
    BY <1>2, <2>2, <2>4 DEF PlacesInv
<1>5. QED
  BY <1>3, <1>4

\* Lists of proctors are replaced.
LEMMA ClerkStep ==
  ASSUME PlacesInv, BeginAssign \/ DeleteDuties \/ CommitAssign \/ ClerkDies
  PROVE  PlacesInv'
<1>0. PlacesTypeOK /\ LogOK /\ DutyOK
  BY DEF PlacesInv
<1>1. UNCHANGED <<accounts, places, outside, logged>>
  BY DEF BeginAssign, DeleteDuties, CommitAssign, ClerkDies
<1>2. PlacesTypeOK' /\ LogOK'
  BY <1>0, <1>1 DEF PlacesTypeOK, LogOK, accounts, places, outside
<1>3. UNCHANGED <<user, post>>
  BY <1>1 DEF accounts, places
<1>4. CASE BeginAssign
  <2>1. PICK c \in Clerk, s \in Existing(post), chosen \in SUBSET User :
          clerk' = [clerk EXCEPT ![c] = [op |-> "assign", post |-> s, chosen |-> chosen]]
    BY <1>4 DEF BeginAssign
  <2>2. s \in Post
    BY <1>0 DEF PlacesTypeOK, Existing
  <2>3. ClerkOK([op |-> "assign", post |-> s, chosen |-> chosen])
    BY <2>2 DEF ClerkOK
  <2>4. UNCHANGED <<duty, lists, blended>>
    BY <1>4 DEF BeginAssign
  <2>5. QED
    BY <1>0, <1>2, <1>3, <2>1, <2>3, <2>4, ClerkMoves DEF PlacesInv
<1>5. CASE DeleteDuties
  <2>1. PICK c \in Clerk :
          /\ At(clerk, c, "assign")
          /\ clerk' = [clerk EXCEPT ![c] = [op |-> "replace", post |-> @.post, chosen |-> @.chosen, began |-> lists,
                                            seen |-> {d \in duty : d.post = @.post}]]
    BY <1>5 DEF DeleteDuties
  <2> DEFINE r == [op |-> "replace", post |-> clerk[c].post, chosen |-> clerk[c].chosen, began |-> lists,
                   seen |-> DutiesOf(clerk[c].post)]
  <2>2. clerk' = [clerk EXCEPT ![c] = r]
    BY <2>1 DEF DutiesOf
  <2>3. ClerkOK(clerk[c]) /\ lists \in Nat
    BY <1>0 DEF DutyOK, DutyTypeOK
  <2>4. ClerkOK(r)
    BY <2>1, <2>3 DEF ClerkOK, At
  <2>5. UNCHANGED <<duty, lists, blended>>
    BY <1>5 DEF DeleteDuties
  <2>6. QED
    BY <1>0, <1>2, <1>3, <2>2, <2>4, <2>5, ClerkMoves DEF PlacesInv
<1>6. CASE CommitAssign
  <2>1. PICK c \in Clerk :
          /\ At(clerk, c, "replace") /\ clerk' = [clerk EXCEPT ![c] = Idle]
          /\ LET r == clerk[c]
                 left == duty \ r.seen
                 twice == \E d \in left : d.post = r.post /\ d.user \in r.chosen
                 missing == post[r.post] = None \/ \E u \in r.chosen : user[u] = None
             IN IF r.chosen # {} /\ (twice \/ missing) THEN UNCHANGED <<duty, lists, blended>>
                ELSE /\ duty' = left \cup {[post |-> r.post, user |-> u, list |-> lists + 1] : u \in r.chosen}
                     /\ lists' = lists + 1
                     /\ blended' = IF r.began = lists THEN blended \ {r.post} ELSE blended \cup {r.post}
    BY <1>6 DEF CommitAssign
  <2>2. CASE UNCHANGED <<duty, lists, blended>>
    BY <1>0, <1>2, <1>3, <2>1, <2>2, ClerkMoves, IdleClerk DEF PlacesInv
  <2>3. CASE ~UNCHANGED <<duty, lists, blended>>
    <3>1. DutyOK'
      BY <1>0, <1>3, <2>1, <2>3, ListWritten
    <3>2. QED
      BY <1>2, <3>1 DEF PlacesInv
  <2>4. QED
    BY <2>2, <2>3
<1>7. CASE ClerkDies
  <2>1. PICK c \in Clerk : clerk' = [clerk EXCEPT ![c] = Idle]
    BY <1>7 DEF ClerkDies
  <2>2. UNCHANGED <<duty, lists, blended>>
    BY <1>7 DEF ClerkDies
  <2>3. QED
    BY <1>0, <1>2, <1>3, <2>1, <2>2, ClerkMoves, IdleClerk DEF PlacesInv
<1>8. QED
  BY <1>4, <1>5, <1>6, <1>7

\* Sites write in no table but the log.
LEMMA SiteStep == PlacesInv /\ SiteNext => PlacesInv'
<1> SUFFICES ASSUME PlacesInv, SiteNext PROVE PlacesInv'
  OBVIOUS
<1>0. PlacesTypeOK /\ LogOK /\ DutyOK
  BY DEF PlacesInv
<1>1. UNCHANGED <<accounts, places, lineup>>
  BY DEF SiteNext, EnterSecret, SiteTokenExpires, FetchProctors, Act, Auth, SendLog
<1>2. DutyOK'
  BY <1>0, <1>1, DutiesLeft DEF DutyOK, RowsRefer, accounts, places, lineup
<1>3. token' \subseteq Post /\ local' \in [Post -> SUBSET User]
  <2>1. ASSUME NEW s \in Post PROVE ProctorsOf(s) \subseteq User
    BY <1>0 DEF ProctorsOf, DutyOK, DutyTypeOK, DutyRow
  <2>2. QED
    BY <1>0, <2>1
    DEF PlacesTypeOK, SiteNext, EnterSecret, SiteTokenExpires, FetchProctors, Act, Auth, SendLog
<1>4. PlacesTypeOK'
  BY <1>0, <1>1, <1>3 DEF PlacesTypeOK, accounts, places
<1>5. LogOK'
  <2>1. CASE Act
    <3>1. PICK s \in Post, d \in Deed : \E u \in local[s] :
            /\ deed' = [deed EXCEPT ![d] = [post |-> s, user |-> u]]
            /\ unsent' = unsent \cup {d} /\ logged' = logged
      BY <2>1 DEF Act
    <3>2. PICK u \in local[s] : deed' = [deed EXCEPT ![d] = [post |-> s, user |-> u]]
      BY <3>1
    <3>3. [post |-> s, user |-> u] \in DeedRow /\ [post |-> s, user |-> u] # None
      BY <1>0, RowsAreNoNone DEF PlacesTypeOK, DeedRow
    <3>4. QED
      BY <1>0, <3>1, <3>2, <3>3 DEF LogOK
  <2>2. CASE ~Act
    <3>1. deed' = deed /\ unsent' \subseteq unsent /\ logged' \subseteq logged \cup unsent
      BY <2>2 DEF SiteNext, EnterSecret, SiteTokenExpires, FetchProctors, Auth, SendLog, UnsentOf
    <3>2. QED
      BY <1>0, <3>1 DEF LogOK
  <2>3. QED
    BY <2>1, <2>2
<1>6. QED
  BY <1>2, <1>4, <1>5 DEF PlacesInv

LEMMA PlacesStep == PlacesInv /\ [AccessNext]_accessVars => PlacesInv'
<1> SUFFICES ASSUME PlacesInv, [AccessNext]_accessVars PROVE PlacesInv'
  OBVIOUS
<1>1. CASE UNCHANGED accessVars
  <2>1. PlacesTypeOK' /\ LogOK'
    BY <1>1 DEF accessVars, accounts, places, outside, PlacesInv, PlacesTypeOK, LogOK
  <2>2. DutyOK'
    BY <1>1, DutiesLeft DEF accessVars, accounts, places, lineup, PlacesInv, DutyOK, RowsRefer
  <2>3. QED
    BY <2>1, <2>2 DEF PlacesInv
<1>2. QED
  BY <1>1, UserStep, PlaceStep, ClerkStep, SiteStep DEF AccessNext, PostNext

\* sites.ts: whatever PUTs overlap or die and whoever is deleted meanwhile, the proctors of a site
\* exist, nobody is on its list twice, and the list is that of one PUT unless two have overlapped
\* on it; an entry of the log is of something that was done.
THEOREM ProctorsAreOneList == AccessSpec => []AccessTypeOK
<1>1. PlacesInv => AccessTypeOK
  BY DEF PlacesInv, PlacesTypeOK, LogOK, DutyOK, RowsRefer, OneList, AccessTypeOK
<1>2. QED
  BY <1>1, PlacesBegin, PlacesStep, PTL DEF AccessSpec

(***************************************************************************)
(* Files.                                                                   *)
(***************************************************************************)
Things == Media \cup (Outpost \X File)
Request == [op : {"put", "remove", "insert", "delete"}, thing : Things]

StorageTypeOK ==
  /\ object \in [Keys -> Things \cup {None, "cut"}]
  /\ asset \subseteq Media \cap sent
  /\ attachment \in [File -> Outpost \cup {None}]
  /\ upload \in [Upload -> Request \cup {Idle}]

Active(u) == upload[u] # Idle

\* What is cut off is removed and never inserted, what is inserted has its object.
UploadsInOrder ==
  \A u \in Upload : Active(u) =>
    /\ upload[u].op = "remove" => Big(upload[u].thing)
    /\ upload[u].op = "insert" =>
         ~Big(upload[u].thing) /\ object[ObjectKey(upload[u].thing)] = upload[u].thing

\* An asset is uploaded once, and deleted after that only: one request has to do with it
\* at a time, and none while it has a row.
MediaOnce ==
  /\ \A u \in Upload : Active(u) /\ upload[u].thing \in Media => upload[u].thing \in sent \ asset
  /\ \A u, v \in Upload : u # v /\ Active(u) /\ Active(v) /\ upload[u].thing \in Media =>
       upload[u].thing # upload[v].thing

DeletesMedia == \A u \in Upload : Active(u) /\ upload[u].op = "delete" => upload[u].thing \in Media

RowsAreWhole == \A f \in File : attachment[f] # None => attachment[f] \in Outpost /\ ~Big(<<attachment[f], f>>)

StorageInv ==
  /\ StorageTypeOK /\ UploadsInOrder /\ MediaOnce /\ DeletesMedia /\ RowsAreWhole
  /\ RowHasObject

\* Two things never share an object.
LEMMA KeysDiffer ==
  ASSUME NEW x \in Things, NEW y \in Things
  PROVE  ObjectKey(x) \in Keys /\ (ObjectKey(x) = ObjectKey(y) => x = y)
<1>1. ObjectKey(x) \in Keys
  BY DEF ObjectKey, Keys, Things
<1>2. ASSUME ObjectKey(x) = ObjectKey(y) PROVE x = y
  <2>1. ObjectKey(x)[1] = ObjectKey(y)[1] /\ ObjectKey(x)[2] = ObjectKey(y)[2]
    BY <1>2
  <2>2. QED
    BY <2>1 DEF ObjectKey
<1>3. QED
  BY <1>1, <1>2

LEMMA RequestType ==
  ASSUME StorageTypeOK, NEW u \in Upload
  PROVE  /\ Active(u) => upload[u] \in Request
         /\ Active(u) <=> upload[u].op # "idle"
         /\ ~At(upload, u, "idle") <=> Active(u)
BY DEF StorageTypeOK, Request, Active, Idle, At

LEMMA StorageBegins == StorageInit => StorageInv
<1> SUFFICES ASSUME StorageInit PROVE StorageInv
  OBVIOUS
<1>1. StorageTypeOK
  BY DEF StorageInit, StorageTypeOK
<1>2. \A u \in Upload : ~Active(u)
  BY DEF StorageInit, Active
<1>3. UploadsInOrder /\ MediaOnce /\ DeletesMedia
  BY <1>2 DEF UploadsInOrder, MediaOnce, DeletesMedia
<1>4. RowsAreWhole /\ RowHasObject
  BY DEF StorageInit, RowsAreWhole, RowHasObject, Existing
<1>5. QED
  BY <1>1, <1>3, <1>4 DEF StorageInv

LEMMA PostAssetKeeps == StorageInv /\ PostAsset => StorageInv'
<1> SUFFICES ASSUME StorageInv, PostAsset PROVE StorageInv'
  OBVIOUS
<1> USE DEF StorageInv
<1>1. PICK u \in Upload, m \in Media \ sent :
        /\ upload' = [upload EXCEPT ![u] = [op |-> "put", thing |-> m]]
        /\ sent' = sent \cup {m} /\ UNCHANGED bucket
  BY DEF PostAsset
<1>2. StorageTypeOK'
  BY <1>1 DEF StorageTypeOK, Request, Things, bucket
<1>3. upload'[u] = [op |-> "put", thing |-> m] /\ \A v \in Upload \ {u} : upload'[v] = upload[v]
  BY <1>1 DEF StorageTypeOK
<1>4. UploadsInOrder' /\ DeletesMedia'
  BY <1>1, <1>3 DEF UploadsInOrder, DeletesMedia, Active, bucket
<1>5. MediaOnce'
  BY <1>1, <1>3 DEF MediaOnce, Active, StorageTypeOK, bucket
<1>6. RowsAreWhole' /\ RowHasObject'
  BY <1>1 DEF RowsAreWhole, RowHasObject, Existing, bucket
<1>7. QED
  BY <1>2, <1>4, <1>5, <1>6

LEMMA PostAttachmentKeeps ==
  ASSUME NEW o \in Outpost, NEW f \in File, StorageInv, PostAttachment(o, f)
  PROVE  StorageInv'
<1> USE DEF StorageInv
<1>1. <<o, f>> \in Things /\ <<o, f>> \notin Media
  BY MediaAssumption DEF Things
<1>2. sent' = sent \cup {<<o, f>>} /\ UNCHANGED bucket
  BY DEF PostAttachment
<1>3. CASE upload' = upload
  BY <1>2, <1>3 DEF StorageTypeOK, UploadsInOrder, DeletesMedia, MediaOnce, RowsAreWhole,
     RowHasObject, Existing, Active, bucket
<1>4. CASE \E u \in Upload : upload' = [upload EXCEPT ![u] = [op |-> "put", thing |-> <<o, f>>]]
  <2>1. PICK u \in Upload : upload' = [upload EXCEPT ![u] = [op |-> "put", thing |-> <<o, f>>]]
    BY <1>4
  <2>2. StorageTypeOK'
    BY <1>1, <1>2, <2>1 DEF StorageTypeOK, Request, bucket
  <2>3. upload'[u] = [op |-> "put", thing |-> <<o, f>>] /\ \A v \in Upload \ {u} : upload'[v] = upload[v]
    BY <2>1 DEF StorageTypeOK
  <2>4. UploadsInOrder' /\ DeletesMedia'
    BY <1>2, <2>3 DEF UploadsInOrder, DeletesMedia, Active, bucket
  <2>5. MediaOnce'
    BY <1>1, <1>2, <2>3 DEF MediaOnce, Active, bucket
  <2>6. RowsAreWhole' /\ RowHasObject'
    BY <1>2 DEF RowsAreWhole, RowHasObject, Existing, bucket
  <2>7. QED
    BY <2>2, <2>4, <2>5, <2>6
<1>5. QED
  BY <1>3, <1>4 DEF PostAttachment

\* An object is written over or removed for a request: no row and no other request relies
\* on what it held.
LEMMA NobodyRelies ==
  ASSUME StorageInv, NEW u \in Upload, upload[u] \in Request,
         upload[u].thing \in Media \/ Big(upload[u].thing)
  PROVE  LET k == ObjectKey(upload[u].thing)
         IN /\ \A m \in asset : ObjectKey(m) # k
            /\ \A f \in Existing(attachment) : ObjectKey(<<attachment[f], f>>) # k
            /\ \A v \in Upload \ {u} : Active(v) /\ upload[v].op = "insert" => ObjectKey(upload[v].thing) # k
<1> DEFINE x == upload[u].thing
<1> USE DEF StorageInv
<1>1. x \in Things /\ Active(u) /\ upload[u].op # "idle"
  BY RequestType DEF Request
<1>2. ASSUME NEW m \in asset PROVE ObjectKey(m) # ObjectKey(x)
  <2>1. m \in Media /\ m \in Things
    BY DEF StorageTypeOK, Things
  <2>2. m # x
    BY <1>1, <2>1 DEF MediaOnce
  <2>3. QED
    BY <1>1, <2>1, <2>2, KeysDiffer
<1>3. ASSUME NEW f \in Existing(attachment) PROVE ObjectKey(<<attachment[f], f>>) # ObjectKey(x)
  <2>1. f \in File /\ attachment[f] \in Outpost /\ ~Big(<<attachment[f], f>>)
    BY DEF RowsAreWhole, Existing, StorageTypeOK
  <2>2. <<attachment[f], f>> \in Things /\ <<attachment[f], f>> \notin Media
    BY <2>1, MediaAssumption DEF Things
  <2>3. <<attachment[f], f>> # x
    BY <2>1, <2>2
  <2>4. QED
    BY <1>1, <2>2, <2>3, KeysDiffer
<1>4. ASSUME NEW v \in Upload \ {u}, Active(v), upload[v].op = "insert"
      PROVE  ObjectKey(upload[v].thing) # ObjectKey(x)
  <2>1. upload[v].thing \in Things
    BY <1>4, RequestType DEF Request
  <2>2. ~Big(upload[v].thing)
    BY <1>4 DEF UploadsInOrder
  <2>3. x # upload[v].thing
    BY <1>1, <1>4, <2>2 DEF MediaOnce
  <2>4. QED
    BY <1>1, <2>1, <2>3, KeysDiffer
<1>5. QED
  BY <1>2, <1>3, <1>4

\* A request goes on to another step, or ends, with its thing.
LEMMA MovesKeep ==
  ASSUME StorageInv, NEW u \in Upload, upload[u] \in Request,
         upload' \in [Upload -> Request \cup {Idle}],
         upload'[u] = Idle \/ (upload'[u].thing = upload[u].thing /\ upload'[u].op # "delete"),
         \A v \in Upload \ {u} : upload'[v] = upload[v],
         UNCHANGED <<asset, sent>>
  PROVE  MediaOnce' /\ DeletesMedia'
<1>1. Active(u)
  BY RequestType DEF StorageInv, Request
<1>2. MediaOnce'
  BY <1>1 DEF StorageInv, MediaOnce, Active
<1>3. DeletesMedia'
  BY DEF StorageInv, DeletesMedia, Active
<1>4. QED
  BY <1>2, <1>3

LEMMA PutStreamKeeps == StorageInv /\ PutStream => StorageInv'
<1> SUFFICES ASSUME StorageInv, PutStream PROVE StorageInv'
  OBVIOUS
<1> USE DEF StorageInv
<1> PICK u \in Upload :
      /\ At(upload, u, "put")
      /\ object' = [object EXCEPT ![ObjectKey(upload[u].thing)] =
                      IF Big(upload[u].thing) THEN "cut" ELSE upload[u].thing]
      /\ upload' = [upload EXCEPT ![u].op = IF Big(upload[u].thing) THEN "remove" ELSE "insert"]
      /\ UNCHANGED <<asset, attachment, sent>>
  BY DEF PutStream, Goto
<1> DEFINE x == upload[u].thing
<1>1. upload[u] \in Request /\ x \in Things /\ ObjectKey(x) \in Keys
  BY RequestType, KeysDiffer DEF At, Request
<1>2. /\ upload'[u] = [op |-> IF Big(x) THEN "remove" ELSE "insert", thing |-> x]
      /\ \A v \in Upload \ {u} : upload'[v] = upload[v]
  BY <1>1 DEF StorageTypeOK, Request
<1>3. StorageTypeOK'
  BY <1>1 DEF StorageTypeOK, Request
<1>4. MediaOnce' /\ DeletesMedia'
  <2>1. upload' \in [Upload -> Request \cup {Idle}]
    BY <1>3 DEF StorageTypeOK
  <2>2. upload'[u].thing = upload[u].thing /\ upload'[u].op # "delete"
    BY <1>2
  <2> HIDE DEF StorageInv
  <2>3. QED
    BY <1>1, <1>2, <2>1, <2>2, MovesKeep
<1>5. object'[ObjectKey(x)] = (IF Big(x) THEN "cut" ELSE x) /\
      \A k \in Keys : k # ObjectKey(x) => object'[k] = object[k]
  BY <1>1 DEF StorageTypeOK
<1>6. \A y \in Things : object[ObjectKey(y)] = y /\ (Big(x) => ObjectKey(y) # ObjectKey(x)) =>
        object'[ObjectKey(y)] = y
  BY <1>1, <1>5, KeysDiffer
<1>7. RowsAreWhole' /\ RowHasObject'
  <2>1. RowsAreWhole'
    BY DEF RowsAreWhole
  <2>2. ASSUME NEW m \in asset PROVE object'[ObjectKey(m)] = m
    <3>1. m \in Things /\ object[ObjectKey(m)] = m
      BY DEF StorageTypeOK, Things, RowHasObject
    <3>2. Big(x) => ObjectKey(m) # ObjectKey(x)
      BY <1>1, NobodyRelies
    <3>3. QED
      BY <1>6, <3>1, <3>2
  <2>3. ASSUME NEW f \in Existing(attachment) PROVE object'[ObjectKey(<<attachment[f], f>>)] = <<attachment[f], f>>
    <3>1. <<attachment[f], f>> \in Things /\ object[ObjectKey(<<attachment[f], f>>)] = <<attachment[f], f>>
      BY DEF StorageTypeOK, Existing, RowsAreWhole, Things, RowHasObject
    <3>2. Big(x) => ObjectKey(<<attachment[f], f>>) # ObjectKey(x)
      BY <1>1, NobodyRelies
    <3>3. QED
      BY <1>6, <3>1, <3>2
  <2>4. QED
    BY <2>1, <2>2, <2>3 DEF RowHasObject, Existing
<1>8. UploadsInOrder'
  <2> SUFFICES ASSUME NEW v \in Upload, Active(v)'
               PROVE  /\ upload'[v].op = "remove" => Big(upload'[v].thing)
                      /\ upload'[v].op = "insert" => /\ ~Big(upload'[v].thing)
                                                     /\ object'[ObjectKey(upload'[v].thing)] = upload'[v].thing
    BY DEF UploadsInOrder, Big
  <2>1. CASE v = u
    BY <1>2, <1>5, <2>1
  <2>2. CASE v # u /\ upload[v].op = "insert"
    <3>1. Active(v) /\ upload[v].thing \in Things
      BY <1>2, <2>2, RequestType DEF Active, Request
    <3>2. ~Big(upload[v].thing) /\ object[ObjectKey(upload[v].thing)] = upload[v].thing
      BY <2>2, <3>1 DEF UploadsInOrder
    <3>3. Big(x) => ObjectKey(upload[v].thing) # ObjectKey(x)
      BY <1>1, <2>2, <3>1, NobodyRelies
    <3>4. QED
      BY <1>2, <1>6, <2>2, <3>1, <3>2, <3>3
  <2>3. CASE v # u /\ upload[v].op # "insert"
    BY <1>2, <2>3 DEF UploadsInOrder, Active
  <2>4. QED
    BY <2>1, <2>2, <2>3
<1>9. QED
  BY <1>3, <1>4, <1>7, <1>8

\* An object that nobody relies on is removed, and the request ends.
LEMMA RemovalKeeps ==
  ASSUME StorageInv, NEW u \in Upload, upload[u] \in Request,
         upload[u].thing \in Media \/ Big(upload[u].thing),
         object' = [object EXCEPT ![ObjectKey(upload[u].thing)] = None],
         Finish(u), UNCHANGED <<asset, attachment, sent>>
  PROVE  StorageInv'
<1> USE DEF StorageInv
<1> DEFINE x == upload[u].thing
<1>1. x \in Things /\ ObjectKey(x) \in Keys
  BY KeysDiffer DEF Request
<1>2. upload'[u] = Idle /\ \A v \in Upload \ {u} : upload'[v] = upload[v]
  BY DEF StorageTypeOK, Finish
<1>3. StorageTypeOK'
  BY DEF StorageTypeOK, Finish
<1>4. MediaOnce' /\ DeletesMedia'
  <2>1. upload' \in [Upload -> Request \cup {Idle}]
    BY <1>3 DEF StorageTypeOK
  <2>2. UNCHANGED <<asset, sent>>
    OBVIOUS
  <2> HIDE DEF StorageInv
  <2>3. QED
    BY <1>2, <2>1, <2>2, MovesKeep
<1>5. \A y \in Things : object[ObjectKey(y)] = y /\ ObjectKey(y) # ObjectKey(x) => object'[ObjectKey(y)] = y
  BY <1>1, KeysDiffer DEF StorageTypeOK
<1>6. RowsAreWhole' /\ RowHasObject'
  <2>1. RowsAreWhole'
    BY DEF RowsAreWhole
  <2>2. ASSUME NEW m \in asset PROVE object'[ObjectKey(m)] = m
    <3>1. m \in Things /\ object[ObjectKey(m)] = m
      BY DEF StorageTypeOK, Things, RowHasObject
    <3>2. QED
      BY <1>5, <3>1, NobodyRelies
  <2>3. ASSUME NEW f \in Existing(attachment) PROVE object'[ObjectKey(<<attachment[f], f>>)] = <<attachment[f], f>>
    <3>1. <<attachment[f], f>> \in Things /\ object[ObjectKey(<<attachment[f], f>>)] = <<attachment[f], f>>
      BY DEF StorageTypeOK, Existing, RowsAreWhole, Things, RowHasObject
    <3>2. QED
      BY <1>5, <3>1, NobodyRelies
  <2>4. QED
    BY <2>1, <2>2, <2>3 DEF RowHasObject, Existing
<1>7. UploadsInOrder'
  <2> SUFFICES ASSUME NEW v \in Upload, Active(v)'
               PROVE  /\ upload'[v].op = "remove" => Big(upload'[v].thing)
                      /\ upload'[v].op = "insert" => /\ ~Big(upload'[v].thing)
                                                     /\ object'[ObjectKey(upload'[v].thing)] = upload'[v].thing
    BY DEF UploadsInOrder, Big
  <2>1. v # u /\ Active(v) /\ upload'[v] = upload[v]
    BY <1>2 DEF Active
  <2>2. CASE upload[v].op = "insert"
    <3>1. upload[v].thing \in Things
      BY <2>1, RequestType DEF Request
    <3>2. ~Big(upload[v].thing) /\ object[ObjectKey(upload[v].thing)] = upload[v].thing
      BY <2>1, <2>2 DEF UploadsInOrder
    <3>3. ObjectKey(upload[v].thing) # ObjectKey(x)
      BY <2>1, <2>2, NobodyRelies
    <3>4. QED
      BY <1>5, <2>1, <2>2, <3>1, <3>2, <3>3
  <2>3. CASE upload[v].op # "insert"
    BY <2>1, <2>3 DEF UploadsInOrder
  <2>4. QED
    BY <2>2, <2>3
<1>8. QED
  BY <1>3, <1>4, <1>6, <1>7

\* A row is inserted for what its object holds, and the request ends.
LEMMA InsertKeeps ==
  ASSUME StorageInv, NEW u \in Upload, At(upload, u, "insert"), Finish(u), UNCHANGED <<object, sent>>,
         LET x == upload[u].thing
         IN IF x \in Media THEN asset' = asset \cup {x} /\ attachment' = attachment
            ELSE attachment' = [attachment EXCEPT ![x[2]] = Kept(x[2], x[1])] /\ asset' = asset
  PROVE  StorageInv'
<1> USE DEF StorageInv
<1> DEFINE x == upload[u].thing
<1>1. Active(u) /\ upload[u] \in Request /\ x \in Things
  BY RequestType DEF At, Request
<1>2. ~Big(x) /\ object[ObjectKey(x)] = x
  BY <1>1 DEF UploadsInOrder, At
<1>3. upload'[u] = Idle /\ \A v \in Upload \ {u} : upload'[v] = upload[v]
  BY DEF StorageTypeOK, Finish
<1>4. upload' \in [Upload -> Request \cup {Idle}]
  BY DEF StorageTypeOK, Finish
<1>5. UploadsInOrder' /\ DeletesMedia'
  BY <1>3 DEF UploadsInOrder, DeletesMedia, Active
<1>6. CASE x \in Media
  <2>1. asset' = asset \cup {x} /\ attachment' = attachment
    BY <1>6
  <2>2. x \in sent \ asset
    BY <1>1, <1>6 DEF MediaOnce
  <2>3. StorageTypeOK'
    BY <1>4, <1>6, <2>1, <2>2 DEF StorageTypeOK
  <2>4. MediaOnce'
    BY <1>1, <1>3, <1>6, <2>1 DEF MediaOnce, Active
  <2>5. RowsAreWhole' /\ RowHasObject'
    BY <1>2, <2>1 DEF RowsAreWhole, RowHasObject, Existing
  <2>6. QED
    BY <1>5, <2>3, <2>4, <2>5
<1>7. CASE x \notin Media
  <2>1. PICK o \in Outpost, f \in File : x = <<o, f>>
    BY <1>1, <1>7 DEF Things
  <2>2. attachment' = [attachment EXCEPT ![f] = Kept(f, o)] /\ asset' = asset
    BY <1>7, <2>1
  <2>3. Kept(f, o) = o \/ (Kept(f, o) = attachment[f] /\ attachment[f] # None)
    BY DEF Kept
  <2>4. StorageTypeOK'
    BY <1>4, <2>2, <2>3 DEF StorageTypeOK
  <2>5. MediaOnce'
    BY <1>3, <2>2 DEF MediaOnce, Active
  <2>6. RowsAreWhole'
    BY <1>2, <2>1, <2>2, <2>3 DEF RowsAreWhole, StorageTypeOK
  <2>7. RowHasObject'
    <3>1. \A m \in asset' : object'[ObjectKey(m)] = m
      BY <2>2 DEF RowHasObject
    <3>2. ASSUME NEW g \in File, attachment'[g] # None
          PROVE  object'[ObjectKey(<<attachment'[g], g>>)] = <<attachment'[g], g>>
      <4>1. CASE attachment'[g] = attachment[g]
        BY <3>2, <4>1 DEF RowHasObject, Existing, StorageTypeOK
      <4>2. CASE g = f /\ attachment'[g] = o
        BY <1>2, <2>1, <4>2
      <4>3. QED
        BY <2>2, <2>3, <4>1, <4>2 DEF StorageTypeOK
    <3>3. QED
      BY <2>4, <3>1, <3>2 DEF RowHasObject, Existing, StorageTypeOK
  <2>8. QED
    BY <1>5, <2>4, <2>5, <2>6, <2>7
<1>8. QED
  BY <1>6, <1>7

LEMMA UploadDiesKeeps == StorageInv /\ UploadDies => StorageInv'
<1> SUFFICES ASSUME StorageInv, UploadDies PROVE StorageInv'
  OBVIOUS
<1> USE DEF StorageInv
<1>1. PICK u \in Upload : Finish(u) /\ UNCHANGED <<bucket, sent>>
  BY DEF UploadDies
<1>2. upload'[u] = Idle /\ \A v \in Upload \ {u} : upload'[v] = upload[v]
  BY <1>1 DEF StorageTypeOK, Finish
<1>3. StorageTypeOK'
  BY <1>1 DEF StorageTypeOK, Finish, bucket
<1>4. UploadsInOrder' /\ DeletesMedia' /\ MediaOnce'
  BY <1>1, <1>2 DEF UploadsInOrder, DeletesMedia, MediaOnce, Active, bucket
<1>5. RowsAreWhole' /\ RowHasObject'
  BY <1>1 DEF RowsAreWhole, RowHasObject, Existing, bucket
<1>6. QED
  BY <1>3, <1>4, <1>5

LEMMA DeleteAssetKeeps == StorageInv /\ DeleteAsset => StorageInv'
<1> SUFFICES ASSUME StorageInv, DeleteAsset PROVE StorageInv'
  OBVIOUS
<1> USE DEF StorageInv
<1>1. PICK u \in Upload, m \in asset :
        /\ asset' = asset \ {m}
        /\ upload' = [upload EXCEPT ![u] = [op |-> "delete", thing |-> m]]
        /\ UNCHANGED <<object, attachment, sent>>
  BY DEF DeleteAsset
<1>2. m \in Media /\ m \in sent /\ [op |-> "delete", thing |-> m] \in Request
  BY DEF StorageTypeOK, Request, Things
<1>3. upload'[u] = [op |-> "delete", thing |-> m] /\ \A v \in Upload \ {u} : upload'[v] = upload[v]
  BY <1>1 DEF StorageTypeOK
<1>4. StorageTypeOK'
  BY <1>1, <1>2 DEF StorageTypeOK
<1>5. UploadsInOrder' /\ DeletesMedia'
  BY <1>1, <1>2, <1>3 DEF UploadsInOrder, DeletesMedia, Active
<1>6. MediaOnce'
  BY <1>1, <1>2, <1>3 DEF MediaOnce, Active
<1>7. RowsAreWhole' /\ RowHasObject'
  BY <1>1 DEF RowsAreWhole, RowHasObject, Existing
<1>8. QED
  BY <1>4, <1>5, <1>6, <1>7

LEMMA StorageStep == StorageInv /\ [StorageNext]_storageVars => StorageInv'
<1> SUFFICES ASSUME StorageInv, [StorageNext]_storageVars PROVE StorageInv'
  OBVIOUS
<1>1. CASE PostAsset
  BY <1>1, PostAssetKeeps
<1>2. CASE PutStream
  BY <1>2, PutStreamKeeps
<1>3. CASE RemoveCut
  <2>1. PICK u \in Upload :
          /\ At(upload, u, "remove") /\ Finish(u) /\ UNCHANGED <<asset, attachment, sent>>
          /\ object' = [object EXCEPT ![ObjectKey(upload[u].thing)] = None]
    BY <1>3 DEF RemoveCut
  <2>2. upload[u] \in Request /\ Big(upload[u].thing)
    BY <2>1, RequestType DEF StorageInv, At, UploadsInOrder
  <2>3. QED
    BY <2>1, <2>2, RemovalKeeps
<1>4. CASE InsertRow
  <2>1. PICK u \in Upload :
          /\ At(upload, u, "insert") /\ Finish(u) /\ UNCHANGED <<object, sent>>
          /\ LET x == upload[u].thing
             IN IF x \in Media THEN asset' = asset \cup {x} /\ attachment' = attachment
                ELSE attachment' = [attachment EXCEPT ![x[2]] = Kept(x[2], x[1])] /\ asset' = asset
    BY <1>4 DEF InsertRow
  <2>2. QED
    BY <2>1, InsertKeeps
<1>5. CASE InsertUnheard
  <2>1. PICK u \in Upload :
          /\ At(upload, u, "insert") /\ Finish(u) /\ UNCHANGED <<object, sent>>
          /\ LET x == upload[u].thing
             IN IF x \in Media THEN asset' = asset \cup {x} /\ attachment' = attachment
                ELSE attachment' = [attachment EXCEPT ![x[2]] = Kept(x[2], x[1])] /\ asset' = asset
    BY <1>5 DEF InsertUnheard
  <2>2. QED
    BY <2>1, InsertKeeps
<1>6. CASE UploadDies
  BY <1>6, UploadDiesKeeps
<1>7. CASE DeleteAsset
  BY <1>7, DeleteAssetKeeps
<1>8. CASE DeleteAssetObject
  <2>1. PICK u \in Upload :
          /\ At(upload, u, "delete") /\ Finish(u) /\ UNCHANGED <<asset, attachment, sent>>
          /\ object' = [object EXCEPT ![ObjectKey(upload[u].thing)] = None]
    BY <1>8 DEF DeleteAssetObject
  <2>2. upload[u] \in Request /\ upload[u].thing \in Media
    BY <2>1, RequestType DEF StorageInv, At, DeletesMedia
  <2>3. QED
    BY <2>1, <2>2, RemovalKeeps
<1>9. CASE \E o \in Outpost, f \in File : PostAttachment(o, f)
  BY <1>9, PostAttachmentKeeps
<1>10. CASE UNCHANGED storageVars
  BY <1>10 DEF StorageInv, storageVars, bucket, StorageTypeOK, UploadsInOrder, MediaOnce, DeletesMedia,
     RowsAreWhole, RowHasObject, Existing, Active
<1>11. QED
  BY <1>1, <1>2, <1>3, <1>4, <1>5, <1>6, <1>7, <1>8, <1>9, <1>10 DEF StorageNext, UploadStep

(***************************************************************************)
(* What a site was told.                                                    *)
(***************************************************************************)
Parcels == Outpost \X File

\* Two sites that send one id know nothing of each other; the server has them in "clashed".
SendersSeen ==
  \A o \in Outpost, f \in File : Sending(<<o, f>>) =>
    /\ attachment[f] \in {None, o} \/ f \in clashed
    /\ \A p \in Outpost \ {o} : Sending(<<p, f>>) => f \in clashed

\* ToldIsKept is inductive only with what holds of a request before its site is told.
ToldInv == told \subseteq Parcels /\ SendersSeen /\ ToldIsKept

\* A request goes on or ends, perhaps with its row.
LEMMA ProgressKeepsTold ==
  ASSUME StorageTypeOK, ToldInv, clashed' = clashed,
         \A x \in Parcels : Sending(x)' => Sending(x),
         \/ UNCHANGED <<attachment, told>>
         \/ \E o \in Outpost, f \in File :
              /\ Sending(<<o, f>>)
              /\ attachment' = [attachment EXCEPT ![f] = Kept(f, o)]
              /\ told' \subseteq told \cup {<<o, f>>}
  PROVE  ToldInv'
<1>1. CASE UNCHANGED <<attachment, told>>
  <2>1. SendersSeen'
    BY <1>1 DEF ToldInv, SendersSeen, Parcels
  <2>2. QED
    BY <1>1, <2>1 DEF ToldInv, ToldIsKept, Parcels
<1>2. ASSUME NEW o \in Outpost, NEW f \in File, Sending(<<o, f>>),
             attachment' = [attachment EXCEPT ![f] = Kept(f, o)],
             told' \subseteq told \cup {<<o, f>>}
      PROVE  ToldInv'
  <2>1. /\ \A g \in File : g # f => attachment'[g] = attachment[g]
        /\ attachment'[f] = Kept(f, o)
    BY <1>2 DEF StorageTypeOK
  <2>2. attachment'[f] = o \/ (attachment'[f] = attachment[f] /\ f \in clashed)
    BY <1>2, <2>1 DEF Kept, ToldInv, SendersSeen
  <2>3. \A g \in File : attachment[g] = None \/ attachment'[g] = attachment[g]
    BY <2>1 DEF Kept
  <2>4. told' \subseteq Parcels
    BY <1>2 DEF ToldInv, Parcels
  <2>5. ASSUME NEW p \in Outpost, NEW g \in File, Sending(<<p, g>>)'
        PROVE  /\ attachment'[g] \in {None, p} \/ g \in clashed
               /\ \A q \in Outpost \ {p} : Sending(<<q, g>>)' => g \in clashed
    <3>1. Sending(<<p, g>>)
      BY <2>5 DEF Parcels
    <3>2. attachment'[g] \in {None, p} \/ g \in clashed
      BY <1>2, <2>1, <2>2, <3>1 DEF ToldInv, SendersSeen
    <3>3. ASSUME NEW q \in Outpost \ {p}, Sending(<<q, g>>)' PROVE g \in clashed
      <4>1. Sending(<<q, g>>)
        BY <3>3 DEF Parcels
      <4>2. QED
        BY <3>1, <4>1 DEF ToldInv, SendersSeen
    <3>4. QED
      BY <3>2, <3>3
  <2>6. SendersSeen'
    BY <2>5 DEF SendersSeen
  <2>7. ASSUME NEW x \in told' PROVE attachment'[x[2]] = x[1] \/ x[2] \in clashed
    <3>1. CASE x = <<o, f>>
      BY <2>2, <3>1
    <3>2. CASE x \in told
      <4>1. x[1] \in Outpost /\ x[2] \in File /\ (attachment[x[2]] = x[1] \/ x[2] \in clashed)
        BY <3>2 DEF ToldInv, ToldIsKept, Parcels
      <4>2. CASE attachment[x[2]] = x[1] /\ x[2] # f
        BY <2>1, <4>1, <4>2
      <4>3. CASE attachment[x[2]] = x[1] /\ x[2] = f
        BY <2>1, <4>1, <4>3, OutpostAssumption DEF Kept
      <4>4. QED
        BY <4>1, <4>2, <4>3
    <3>3. QED
      BY <1>2, <3>1, <3>2
  <2>8. QED
    BY <2>4, <2>6, <2>7 DEF ToldInv, ToldIsKept
<1>3. QED
  BY <1>1, <1>2

\* Only requests for a file that begin add senders.
LEMMA SendersOnlyEnd ==
  ASSUME StorageTypeOK, NEW u \in Upload,
         \/ Finish(u)
         \/ Active(u) /\ \E step \in {"remove", "insert"} : Goto(u, step)
         \/ \E m \in Media, op \in {"put", "delete"} : upload' = [upload EXCEPT ![u] = [op |-> op, thing |-> m]]
  PROVE  \A x \in Parcels : Sending(x)' => Sending(x)
<1> SUFFICES ASSUME NEW x \in Parcels, NEW v \in Upload, upload'[v].op # "idle", upload'[v].thing = x
             PROVE  Sending(x)
  BY DEF Sending, At
<1>1. x \notin Media
  BY MediaAssumption DEF Parcels
<1>2. CASE v # u
  <2>1. upload'[v] = upload[v]
    BY <1>2 DEF StorageTypeOK, Finish, Goto
  <2>2. QED
    BY <2>1 DEF Sending, At
<1>3. CASE v = u /\ Finish(u)
  BY <1>3 DEF StorageTypeOK, Finish, Idle
<1>4. CASE v = u /\ Active(u) /\ \E step \in {"remove", "insert"} : Goto(u, step)
  <2>1. upload[u] \in Request
    BY <1>4, RequestType
  <2>2. upload'[u].thing = upload[u].thing
    BY <1>4, <2>1 DEF StorageTypeOK, Request, Goto
  <2>3. upload[u].op # "idle"
    BY <2>1 DEF Request
  <2>4. QED
    BY <1>4, <2>2, <2>3 DEF Sending, At
<1>5. CASE v = u /\ \E m \in Media, op \in {"put", "delete"} :
                      upload' = [upload EXCEPT ![u] = [op |-> op, thing |-> m]]
  BY <1>1, <1>5 DEF StorageTypeOK
<1>6. QED
  BY <1>2, <1>3, <1>4, <1>5

LEMMA PostAttachmentKeepsTold ==
  ASSUME NEW o \in Outpost, NEW f \in File, StorageTypeOK, ToldInv, PostAttachment(o, f)
  PROVE  ToldInv'
<1>1. attachment' = attachment
  BY DEF PostAttachment, bucket
<1>2. CASE attachment[f] # None
  <2>1. upload' = upload /\ clashed' = clashed
    BY <1>2 DEF PostAttachment
  <2>2. told' = told \/ (told' = told \cup {<<o, f>>} /\ attachment[f] = o)
    BY <1>2 DEF PostAttachment, Refused
  <2>3. SendersSeen'
    BY <1>1, <2>1 DEF ToldInv, SendersSeen, Sending
  <2>4. told' \subseteq Parcels /\ ToldIsKept'
    BY <1>1, <2>1, <2>2 DEF ToldInv, ToldIsKept, Parcels
  <2>5. QED
    BY <2>3, <2>4 DEF ToldInv
<1>3. CASE attachment[f] = None
  <2>1. PICK u \in Upload :
          /\ At(upload, u, "idle")
          /\ upload' = [upload EXCEPT ![u] = [op |-> "put", thing |-> <<o, f>>]]
    BY <1>3 DEF PostAttachment
  <2>2. told' = told /\ clashed' = IF \E p \in Outpost \ {o} : Sending(<<p, f>>) THEN clashed \cup {f} ELSE clashed
    BY <1>3 DEF PostAttachment
  <2>3. \A x \in Parcels : Sending(x)' => x = <<o, f>> \/ Sending(x)
    BY <2>1 DEF Sending, At, StorageTypeOK
  <2>4. ASSUME NEW p \in Outpost, NEW g \in File, Sending(<<p, g>>)'
        PROVE  /\ attachment'[g] \in {None, p} \/ g \in clashed'
               /\ \A q \in Outpost \ {p} : Sending(<<q, g>>)' => g \in clashed'
    <3>1. <<p, g>> = <<o, f>> \/ Sending(<<p, g>>)
      BY <2>3, <2>4 DEF Parcels
    <3>2. attachment'[g] \in {None, p} \/ g \in clashed'
      BY <1>1, <1>3, <2>2, <3>1 DEF ToldInv, SendersSeen
    <3>3. ASSUME NEW q \in Outpost \ {p}, Sending(<<q, g>>)' PROVE g \in clashed'
      <4>1. <<q, g>> = <<o, f>> \/ Sending(<<q, g>>)
        BY <2>3, <3>3 DEF Parcels
      <4>2. CASE Sending(<<p, g>>) /\ Sending(<<q, g>>)
        BY <2>2, <4>2 DEF ToldInv, SendersSeen
      <4>3. CASE <<p, g>> = <<o, f>>
        BY <2>2, <3>3, <4>1, <4>3
      <4>4. CASE <<q, g>> = <<o, f>>
        BY <2>2, <3>1, <3>3, <4>4
      <4>5. QED
        BY <3>1, <4>1, <4>2, <4>3, <4>4
    <3>4. QED
      BY <3>2, <3>3
  <2>5. SendersSeen'
    BY <2>4 DEF SendersSeen
  <2>6. told' \subseteq Parcels /\ ToldIsKept'
    BY <1>1, <2>2 DEF ToldInv, ToldIsKept
  <2>7. QED
    BY <2>5, <2>6 DEF ToldInv
<1>4. QED
  BY <1>2, <1>3

LEMMA InsertKeepsTold == StorageInv /\ ToldInv /\ (InsertRow \/ InsertUnheard) => ToldInv'
<1> SUFFICES ASSUME StorageInv, ToldInv, InsertRow \/ InsertUnheard PROVE ToldInv'
  OBVIOUS
<1>1. PICK u \in Upload :
        /\ At(upload, u, "insert") /\ Finish(u) /\ clashed' = clashed
        /\ IF upload[u].thing \in Media THEN UNCHANGED <<attachment, told>>
           ELSE /\ attachment' = [attachment EXCEPT ![upload[u].thing[2]] =
                                    Kept(upload[u].thing[2], upload[u].thing[1])]
                /\ told' \subseteq told \cup {upload[u].thing}
  BY DEF InsertRow, InsertUnheard
<1>2. StorageTypeOK
  BY DEF StorageInv
<1>3. \A x \in Parcels : Sending(x)' => Sending(x)
  BY <1>1, <1>2, SendersOnlyEnd
<1>4. CASE upload[u].thing \in Media
  BY <1>1, <1>2, <1>3, <1>4, ProgressKeepsTold
<1>5. CASE upload[u].thing \notin Media
  <2>1. upload[u] \in Request
    BY <1>1, <1>2, RequestType DEF At
  <2>2. PICK o \in Outpost, f \in File : upload[u].thing = <<o, f>>
    BY <1>5, <2>1 DEF Request, Things
  <2>3. Sending(<<o, f>>)
    BY <1>1, <2>2 DEF Sending, At
  <2>4. attachment' = [attachment EXCEPT ![f] = Kept(f, o)] /\ told' \subseteq told \cup {<<o, f>>}
    BY <1>1, <1>5, <2>2
  <2>5. QED
    BY <1>1, <1>2, <1>3, <2>3, <2>4, ProgressKeepsTold
<1>6. QED
  BY <1>4, <1>5

LEMMA ToldStep == StorageInv /\ ToldInv /\ [StorageNext]_storageVars => ToldInv'
<1> SUFFICES ASSUME StorageInv, ToldInv, [StorageNext]_storageVars PROVE ToldInv'
  OBVIOUS
<1>0. StorageTypeOK
  BY DEF StorageInv
<1>1. CASE PostAsset
  <2>1. UNCHANGED <<attachment, told, clashed>>
    BY <1>1 DEF PostAsset, bucket
  <2>2. \A x \in Parcels : Sending(x)' => Sending(x)
    BY <1>0, <1>1, SendersOnlyEnd DEF PostAsset
  <2>3. QED
    BY <1>0, <2>1, <2>2, ProgressKeepsTold
<1>2. CASE PutStream
  <2>1. PICK u \in Upload : /\ At(upload, u, "put") /\ UNCHANGED <<attachment, told, clashed>>
                            /\ Goto(u, IF Big(upload[u].thing) THEN "remove" ELSE "insert")
    BY <1>2 DEF PutStream
  <2>2. Active(u)
    BY <1>0, <2>1, RequestType DEF At
  <2>3. \A x \in Parcels : Sending(x)' => Sending(x)
    BY <1>0, <2>1, <2>2, SendersOnlyEnd
  <2>4. QED
    BY <1>0, <2>1, <2>3, ProgressKeepsTold
<1>3. CASE RemoveCut \/ UploadDies \/ DeleteAssetObject
  <2>1. PICK u \in Upload : Finish(u) /\ UNCHANGED <<attachment, told, clashed>>
    BY <1>3 DEF RemoveCut, UploadDies, DeleteAssetObject, bucket
  <2>2. \A x \in Parcels : Sending(x)' => Sending(x)
    BY <1>0, <2>1, SendersOnlyEnd
  <2>3. QED
    BY <1>0, <2>1, <2>2, ProgressKeepsTold
<1>4. CASE InsertRow \/ InsertUnheard
  BY <1>4, InsertKeepsTold
<1>5. CASE DeleteAsset
  <2>1. PICK u \in Upload, m \in Media :
          /\ UNCHANGED <<attachment, told, clashed>>
          /\ upload' = [upload EXCEPT ![u] = [op |-> "delete", thing |-> m]]
    BY <1>0, <1>5 DEF DeleteAsset, StorageTypeOK
  <2>2. \A x \in Parcels : Sending(x)' => Sending(x)
    BY <1>0, <2>1, SendersOnlyEnd
  <2>3. QED
    BY <1>0, <2>1, <2>2, ProgressKeepsTold
<1>6. CASE \E o \in Outpost, f \in File : PostAttachment(o, f)
  BY <1>0, <1>6, PostAttachmentKeepsTold
<1>7. CASE UNCHANGED storageVars
  BY <1>7 DEF storageVars, bucket, ToldInv, SendersSeen, ToldIsKept, Sending
<1>8. QED
  BY <1>1, <1>2, <1>3, <1>4, <1>5, <1>6, <1>7 DEF StorageNext, UploadStep

LEMMA ToldBegins == StorageInit => ToldInv
<1> SUFFICES ASSUME StorageInit PROVE ToldInv
  OBVIOUS
<1>1. \A x \in Parcels : ~Sending(x)
  BY DEF StorageInit, Sending, At, Idle
<1>2. QED
  BY <1>1 DEF StorageInit, ToldInv, SendersSeen, ToldIsKept, Parcels

\* assets.ts, sync.ts: what the back office lists as media, and what a site was told to have
\* arrived, is there, whole and from the site it names, unless two sites sent one id at a time;
\* whatever requests overlap, die or are sent again.
THEOREM UploadsAreKept == StorageSpec => []UploadsKept
<1>1. StorageInit => StorageInv /\ ToldInv
  BY StorageBegins, ToldBegins
<1>2. StorageInv /\ ToldInv /\ [StorageNext]_storageVars => (StorageInv /\ ToldInv)'
  BY StorageStep, ToldStep
<1>3. StorageInv /\ ToldInv => UploadsKept
  BY DEF StorageInv, ToldInv, UploadsKept
<1>4. QED
  BY <1>1, <1>2, <1>3, PTL DEF StorageSpec
================================================================================
