--------------------------------- MODULE Access ---------------------------------
(***************************************************************************)
(* Accounts of the admin panel (modules/users.ts, auth.ts), exam sites and     *)
(* their proctors (modules/sites.ts), and what a site does with them: it logs  *)
(* in, fetches the accounts of its proctors and reports what these did, of     *)
(* which it keeps a log until it is told that it arrived (modules/sync.ts).    *)
(*                                                                         *)
(* A token is not looked up again: it opens what it opened when it was signed. *)
(* Abstracted: names, passwords of users, the rate limits of the two logins;   *)
(* roles other than admin and proctor are one; that a site with schedules or   *)
(* results cannot be deleted.                                               *)
(***************************************************************************)
EXTENDS Rows

CONSTANTS
  User, Post,   \* ids of accounts and of exam sites, each created once
  First,        \* the administrator the seed creates
  Deed,         \* ids of entries of the log of a proctor
  Clerk,        \* requests for a new list of proctors that may be under way
  MaxSecrets, MaxLists,
  MaxTrouble    \* answers that are lost, and tokens of sites that run out

ASSUME IdsAssumption == First \in User /\ User \cap Post = {}
ASSUME NoneAssumption ==
  /\ None \notin [role : {"admin", "proctor", "other"}, active : BOOLEAN]
  /\ None \notin [secret : Nat, active : BOOLEAN]
  /\ None \notin [post : Post, user : User]

VARIABLES
  user,     \* User -> [role, active] or None
  desk,     \* users with a token that says they are administrators
  post,     \* Post -> [secret, active] or None
  unused,   \* users and posts that have not been created yet
  duty,     \* siteProctors: rows [post, user, list], list: which PUT wrote it
  clerk,    \* Clerk -> the PUT and what it has seen
  secrets, lists,  \* secrets shown and lists stored so far
  key,      \* external: Post -> the secret entered at the site, 0: none
  token,    \* external: posts whose server holds a token
  local,    \* external: Post -> users that may log in there as proctors
  deed,     \* external: Deed -> [post, user] or None
  unsent,   \* external: deeds the site has not been told to have arrived
  logged,   \* deeds in proctorActions
  overruled,  \* history: accounts were changed by someone who was no active administrator any more
  blended,    \* history: posts two PUTs overlapped on
  trouble

accounts == <<user, desk, overruled>>
places == <<post, secrets>>
lineup == <<duty, clerk, lists, blended>>
outside == <<key, token, local, deed, unsent, trouble>>
accessVars == <<accounts, places, unused, lineup, outside, logged>>

Account(role, active) == [role |-> role, active |-> active]
Roles == {"admin", "proctor", "other"}

ActiveAdmin(u) == user[u] # None /\ user[u] = Account("admin", TRUE)

AccessInit ==
  /\ user = [u \in User |-> IF u = First THEN Account("admin", TRUE) ELSE None]
  /\ desk = {} /\ overruled = FALSE
  /\ post = [s \in Post |-> None] /\ secrets = 0
  /\ unused = (User \ {First}) \cup Post
  /\ duty = {} /\ clerk = [c \in Clerk |-> Idle] /\ lists = 0 /\ blended = {}
  /\ key = [s \in Post |-> 0] /\ token = {} /\ local = [s \in Post |-> {}]
  /\ deed = [d \in Deed |-> None] /\ unsent = {} /\ logged = {} /\ trouble = 0

(***************************************************************************)
(* Accounts.                                                                *)
(***************************************************************************)
\* A token for another role opens none of the routes of this module.
Login ==
  \E u \in User :
    /\ ActiveAdmin(u)
    /\ desk' = desk \cup {u}
    /\ UNCHANGED <<user, overruled, places, unused, lineup, outside, logged>>

TokenExpires ==
  \E u \in desk :
    /\ desk' = desk \ {u}
    /\ UNCHANGED <<user, overruled, places, unused, lineup, outside, logged>>

Overrules(a) == overruled' = (overruled \/ ~ActiveAdmin(a))

CreateUser ==
  \E a \in desk, u \in User \cap unused, role \in Roles, active \in BOOLEAN :
    /\ user' = [user EXCEPT ![u] = Account(role, active)]
    /\ unused' = unused \ {u}
    /\ Overrules(a)
    /\ UNCHANGED <<desk, places, lineup, outside, logged>>

UserBodies == {[role |-> r] : r \in Roles} \cup {[active |-> v] : v \in BOOLEAN}

\* Mutant: administrators may do to themselves what they may do to others.
OwnAccountKept_Never(a, u, b) == TRUE

\* PATCH of one's own account neither deactivates it nor takes it another role.
OwnAccountKept(a, u, b) ==
  a = u => /\ "active" \in DOMAIN b => b.active
           /\ "role" \in DOMAIN b => b.role = "admin"

PatchUser ==
  \E a \in desk, u \in Existing(user), b \in UserBodies :
    /\ OwnAccountKept(a, u, b)
    /\ user' = [user EXCEPT ![u] =
         Account(IF "role" \in DOMAIN b THEN b.role ELSE @.role, IF "active" \in DOMAIN b THEN b.active ELSE @.active)]
    /\ Overrules(a)
    /\ UNCHANGED <<desk, places, unused, lineup, outside, logged>>

\* Duties go along, what was done does not.
DeleteUser ==
  \E a \in desk, u \in Existing(user) :
    /\ a # u
    /\ user' = [user EXCEPT ![u] = None]
    /\ duty' = {d \in duty : d.user # u}
    /\ Overrules(a)
    /\ UNCHANGED <<desk, places, unused, clerk, lists, blended, outside, logged>>

UserNext == Login \/ TokenExpires \/ CreateUser \/ PatchUser \/ DeleteUser

(***************************************************************************)
(* Exam sites and their proctors.                                           *)
(***************************************************************************)
NewSecret == secrets < MaxSecrets /\ secrets' = secrets + 1

CreatePost ==
  \E s \in Post \cap unused, active \in BOOLEAN :
    /\ desk # {} /\ NewSecret
    /\ post' = [post EXCEPT ![s] = [secret |-> secrets', active |-> active]]
    /\ unused' = unused \ {s}
    /\ UNCHANGED <<accounts, lineup, outside, logged>>

PatchPost ==
  \E s \in Existing(post), active \in BOOLEAN :
    /\ desk # {}
    /\ post' = [post EXCEPT ![s].active = active]
    /\ UNCHANGED <<accounts, secrets, unused, lineup, outside, logged>>

\* Tokens signed before stay good.
RotateSecret ==
  \E s \in Existing(post) :
    /\ desk # {} /\ NewSecret
    /\ post' = [post EXCEPT ![s].secret = secrets']
    /\ UNCHANGED <<accounts, unused, lineup, outside, logged>>

\* Its duties and its part of the log go along.
DeletePost ==
  \E s \in Existing(post) :
    /\ desk # {}
    /\ post' = [post EXCEPT ![s] = None]
    /\ duty' = {d \in duty : d.post # s}
    /\ logged' = {d \in logged : deed[d].post # s}
    /\ UNCHANGED <<accounts, secrets, unused, clerk, lists, blended, outside>>

MayBeProctor(u) == user[u] # None /\ user[u].role \in {"proctor", "admin"}

\* PUT proctors looks first whether everyone on the list may be one ...
BeginAssign ==
  \E c \in Clerk, s \in Existing(post), chosen \in SUBSET User :
    /\ desk # {} /\ At(clerk, c, "idle") /\ lists < MaxLists
    /\ \A u \in chosen : MayBeProctor(u)
    /\ clerk' = [clerk EXCEPT ![c] = [op |-> "assign", post |-> s, chosen |-> chosen]]
    /\ UNCHANGED <<accounts, places, unused, duty, lists, blended, outside, logged>>

DeleteDuties ==
  \E c \in Clerk :
    /\ At(clerk, c, "assign")
    /\ clerk' = [clerk EXCEPT ![c] = [op |-> "replace", post |-> @.post, chosen |-> @.chosen, began |-> lists,
                                      seen |-> {d \in duty : d.post = @.post}]]
    /\ UNCHANGED <<accounts, places, unused, duty, lists, blended, outside, logged>>

\* ... and deletes and inserts in one transaction.  Two of them that delete the same rows
\* wait for each other; someone another one has inserted since is on the list twice, and one
\* who is gone is missing: both fail it.
CommitAssign ==
  \E c \in Clerk :
    /\ At(clerk, c, "replace")
    /\ LET r == clerk[c]
           left == duty \ r.seen
           twice == \E d \in left : d.post = r.post /\ d.user \in r.chosen
           missing == post[r.post] = None \/ \E u \in r.chosen : user[u] = None
       IN IF r.chosen # {} /\ (twice \/ missing) THEN UNCHANGED <<duty, lists, blended>>
          ELSE /\ duty' = left \cup {[post |-> r.post, user |-> u, list |-> lists + 1] : u \in r.chosen}
               /\ lists' = lists + 1
               /\ blended' = IF r.began = lists THEN blended \ {r.post} ELSE blended \cup {r.post}
    /\ clerk' = [clerk EXCEPT ![c] = Idle]
    /\ UNCHANGED <<accounts, places, unused, outside, logged>>

\* The API dies: what has not been committed never happened.
ClerkDies ==
  \E c \in Clerk :
    /\ ~At(clerk, c, "idle")
    /\ clerk' = [clerk EXCEPT ![c] = Idle]
    /\ UNCHANGED <<accounts, places, unused, duty, lists, blended, outside, logged>>

PostNext ==
  \/ CreatePost \/ PatchPost \/ RotateSecret \/ DeletePost
  \/ BeginAssign \/ DeleteDuties \/ CommitAssign \/ ClerkDies

(***************************************************************************)
(* The server of a site.                                                    *)
(***************************************************************************)
\* External: somebody enters the secret that was shown.
EnterSecret ==
  \E s \in Existing(post) :
    /\ key' = [key EXCEPT ![s] = post[s].secret]
    /\ UNCHANGED <<accounts, places, unused, lineup, token, local, deed, unsent, trouble, logged>>

MayAuth(s) == post[s] # None /\ post[s].active /\ key[s] = post[s].secret

Auth(s) ==
  /\ s \notin token /\ MayAuth(s)
  /\ token' = token \cup {s}
  /\ UNCHANGED <<accounts, places, unused, lineup, key, local, deed, unsent, trouble, logged>>

SiteTokenExpires ==
  \E s \in token :
    /\ trouble < MaxTrouble /\ trouble' = trouble + 1
    /\ token' = token \ {s}
    /\ UNCHANGED <<accounts, places, unused, lineup, key, local, deed, unsent, logged>>

ProctorsOf(s) == {d.user : d \in {x \in duty : x.post = s /\ user[x.user].active}}

FetchProctors ==
  \E s \in token :
    /\ local' = [local EXCEPT ![s] = ProctorsOf(s)]
    /\ UNCHANGED <<accounts, places, unused, lineup, key, token, deed, unsent, trouble, logged>>

\* External: a proctor does something, with or without the internet.
Act ==
  \E s \in Post, d \in Deed : \E u \in local[s] :
    /\ deed[d] = None
    /\ deed' = [deed EXCEPT ![d] = [post |-> s, user |-> u]]
    /\ unsent' = unsent \cup {d}
    /\ UNCHANGED <<accounts, places, unused, lineup, key, token, local, trouble, logged>>

UnsentOf(s) == {d \in unsent : deed[d].post = s}

\* Mutant: entries refer to accounts that exist.
LogTakes_Known(s) == post[s] # None /\ \A d \in UnsentOf(s) : user[deed[d].user] # None

\* One INSERT for all entries: they refer to the site, not to the accounts.
LogTakes(s) == post[s] # None

\* The site sends all it has not been told of; those that are there are passed over.
SendLog(s) ==
  /\ s \in token /\ UnsentOf(s) # {} /\ LogTakes(s)
  /\ logged' = logged \cup UnsentOf(s)
  /\ \/ unsent' = unsent \ UnsentOf(s) /\ UNCHANGED trouble
     \/ trouble < MaxTrouble /\ trouble' = trouble + 1 /\ UNCHANGED unsent
  /\ UNCHANGED <<accounts, places, unused, lineup, key, token, local, deed>>

SiteNext ==
  \/ EnterSecret \/ SiteTokenExpires \/ FetchProctors \/ Act
  \/ \E s \in Post : Auth(s) \/ SendLog(s)

AccessNext == UserNext \/ PostNext \/ SiteNext

AccessSpec == AccessInit /\ [][AccessNext]_accessVars

\* A site without a token logs in, and goes on sending what it was not told of.
AccessFairness == \A s \in Post : WF_accessVars(Auth(s)) /\ WF_accessVars(SendLog(s))

--------------------------------------------------------------------------------
(***************************************************************************)
(* Properties.                                                              *)
(***************************************************************************)
\* Type invariant.  Duties are for sites and of users that exist, nobody is on a list twice,
\* and a list is what one PUT wrote, but for users deleted since, if no two of them overlapped.
AccessTypeOK ==
  /\ desk \subseteq User /\ token \subseteq Post
  /\ \A d \in duty : post[d.post] # None /\ user[d.user] # None /\ d.list <= lists
  /\ \A d, e \in duty : d.post = e.post /\ d # e =>
       d.user # e.user /\ (d.list = e.list \/ d.post \in blended)
  /\ \A d \in Deed : d \in unsent \cup logged => deed[d] # None

\* users.ts: nobody deactivates, demotes or deletes the own account.  So there always is an
\* administrator who can log in, whatever administrators do to each other, unless one whom
\* another has deactivated, demoted or deleted goes on with the token from before.
AdminRemains == overruled \/ \E u \in User : ActiveAdmin(u)

\* schema.ts: an entry names its user without a foreign key, as the account may be deleted by
\* the time the log arrives.  So what a proctor did reaches the log, although answers are
\* lost, tokens run out, secrets are rotated and accounts deleted, if the site may log in.
LogGetsThrough ==
  \A s \in Post, d \in Deed : d \in UnsentOf(s) ~> d \in logged \/ ~MayAuth(s)
================================================================================
