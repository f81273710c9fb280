-------------------------------- MODULE Storage --------------------------------
(***************************************************************************)
(* Objects in the store and the rows that refer to them: media of questions   *)
(* (modules/assets.ts) and files answered with (POST /sync/attachments).      *)
(* A handler may die between any two of its steps; a site sends a file again  *)
(* until it is told that it arrived.                                        *)
(*                                                                         *)
(* Abstracted: bytes and hashes.  An object is known by who sent it; "cut" is *)
(* the part of a file that the limit of the size lets through.               *)
(***************************************************************************)
EXTENDS Rows

CONSTANTS
  Media,      \* assets that may be uploaded
  Outpost,    \* sites, File: the ids of the files they send
  File,
  TooLarge,   \* media and files over the limit
  Upload,     \* requests that may be under way at one time
  MaxLost     \* requests that die or whose answer is lost

ASSUME MediaAssumption == Media \cap (Outpost \X File) = {}
ASSUME OutpostAssumption == None \notin Outpost

VARIABLES
  object,     \* key -> what it holds, or None
  asset,      \* media that have a row
  attachment, \* File -> the site its row names, or None
  upload,     \* Upload -> the request and where it is
  sent,       \* history: media uploaded so far; pairs <<site, file>> a site has begun to send
  told,       \* history: pairs <<site, file>> a site knows to have arrived
  clashed,    \* history: files that two sites sent at a time
  lost        \* requests lost so far

bucket == <<object, asset, attachment>>
storageVars == <<bucket, upload, sent, told, clashed, lost>>

ObjectKey(thing) == IF thing \in Media THEN <<"assets", thing>> ELSE <<"attachments", thing>>

Keys == {<<"assets", m>> : m \in Media} \cup {<<"attachments", x>> : x \in Outpost \X File}

Big(thing) == IF thing \in Media THEN thing \in TooLarge ELSE thing[2] \in TooLarge

StorageInit ==
  /\ object = [k \in Keys |-> None]
  /\ asset = {} /\ attachment = [f \in File |-> None]
  /\ upload = [u \in Upload |-> Idle]
  /\ sent = {} /\ told = {} /\ clashed = {} /\ lost = 0

Goto(u, step) == upload' = [upload EXCEPT ![u].op = step]
Finish(u) == upload' = [upload EXCEPT ![u] = Idle]
Sending(thing) == \E u \in Upload : ~At(upload, u, "idle") /\ upload[u].thing = thing

(***************************************************************************)
(* Uploads.                                                                 *)
(***************************************************************************)
\* An author uploads: a new id each time.
PostAsset ==
  \E u \in Upload, m \in Media \ sent :
    /\ At(upload, u, "idle")
    /\ upload' = [upload EXCEPT ![u] = [op |-> "put", thing |-> m]]
    /\ sent' = sent \cup {m}
    /\ UNCHANGED <<bucket, told, clashed, lost>>

\* Mutant: a file that is there is a conflict also for the site that sent it.
Refused_Always(o, f) == TRUE

\* Mutant: what is there is there, whoever sent it.
Refused_Never(o, f) == FALSE

Refused(o, f) == attachment[f] # o

\* The handler looks for a row of the id first.  A site may send again what is under way
\* still; it does not send again what is too large.
PostAttachment(o, f) ==
  \E u \in Upload :
    /\ At(upload, u, "idle") /\ <<o, f>> \notin told
    /\ f \notin TooLarge \/ <<o, f>> \notin sent
    /\ sent' = sent \cup {<<o, f>>}
    /\ IF attachment[f] # None
       THEN /\ told' = IF Refused(o, f) THEN told ELSE told \cup {<<o, f>>}
            /\ UNCHANGED <<upload, clashed>>
       ELSE /\ upload' = [upload EXCEPT ![u] = [op |-> "put", thing |-> <<o, f>>]]
            /\ clashed' = IF \E p \in Outpost \ {o} : Sending(<<p, f>>) THEN clashed \cup {f} ELSE clashed
            /\ UNCHANGED told
    /\ UNCHANGED <<bucket, lost>>

\* putStream; what is over the limit arrives cut off ...
PutStream ==
  \E u \in Upload :
    /\ At(upload, u, "put")
    /\ LET x == upload[u].thing
       IN /\ object' = [object EXCEPT ![ObjectKey(x)] = IF Big(x) THEN "cut" ELSE x]
          /\ Goto(u, IF Big(x) THEN "remove" ELSE "insert")
    /\ UNCHANGED <<asset, attachment, sent, told, clashed, lost>>

\* ... is removed, and the request is answered 413.
RemoveCut ==
  \E u \in Upload :
    /\ At(upload, u, "remove")
    /\ object' = [object EXCEPT ![ObjectKey(upload[u].thing)] = None]
    /\ Finish(u)
    /\ UNCHANGED <<asset, attachment, sent, told, clashed, lost>>

\* onConflictDoNothing.
Kept(f, o) == IF attachment[f] = None THEN o ELSE attachment[f]

\* The row is inserted last; whoever gets this far is told that the file arrived.
InsertRow ==
  \E u \in Upload :
    /\ At(upload, u, "insert")
    /\ LET x == upload[u].thing
       IN IF x \in Media THEN asset' = asset \cup {x} /\ UNCHANGED <<attachment, told>>
          ELSE /\ attachment' = [attachment EXCEPT ![x[2]] = Kept(x[2], x[1])]
               /\ told' = told \cup {x} /\ UNCHANGED asset
    /\ Finish(u)
    /\ UNCHANGED <<object, sent, clashed, lost>>

\* The answer of the insert is lost: the row is there, the site is not told.
InsertUnheard ==
  \E u \in Upload :
    /\ At(upload, u, "insert") /\ lost < MaxLost
    /\ upload[u].thing \notin Media
    /\ LET x == upload[u].thing IN attachment' = [attachment EXCEPT ![x[2]] = Kept(x[2], x[1])]
    /\ lost' = lost + 1
    /\ Finish(u)
    /\ UNCHANGED <<object, asset, sent, told, clashed>>

UploadDies ==
  \E u \in Upload :
    /\ ~At(upload, u, "idle") /\ lost < MaxLost
    /\ lost' = lost + 1
    /\ Finish(u)
    /\ UNCHANGED <<bucket, sent, told, clashed>>

(***************************************************************************)
(* DELETE of an asset: the row, then the object.  That the second step fails  *)
(* is only logged.                                                          *)
(***************************************************************************)
DeleteAsset ==
  \E u \in Upload, m \in asset :
    /\ At(upload, u, "idle")
    /\ asset' = asset \ {m}
    /\ upload' = [upload EXCEPT ![u] = [op |-> "delete", thing |-> m]]
    /\ UNCHANGED <<object, attachment, sent, told, clashed, lost>>

DeleteAssetObject ==
  \E u \in Upload :
    /\ At(upload, u, "delete")
    /\ object' = [object EXCEPT ![ObjectKey(upload[u].thing)] = None]
    /\ Finish(u)
    /\ UNCHANGED <<asset, attachment, sent, told, clashed, lost>>

UploadStep == PutStream \/ RemoveCut \/ InsertRow \/ DeleteAssetObject

StorageNext ==
  \/ PostAsset \/ UploadStep \/ InsertUnheard \/ UploadDies \/ DeleteAsset
  \/ \E o \in Outpost, f \in File : PostAttachment(o, f)

StorageSpec == StorageInit /\ [][StorageNext]_storageVars

\* A running API answers the requests it has, a site that was not told sends again.
StorageFairness ==
  /\ WF_storageVars(UploadStep)
  /\ \A o \in Outpost, f \in File : WF_storageVars(PostAttachment(o, f) /\ <<o, f>> \in sent)

--------------------------------------------------------------------------------
(***************************************************************************)
(* Properties.                                                              *)
(***************************************************************************)
\* The parts of UploadsKept.  A row never refers to an object that is missing, cut off or
\* another site's, although requests die between the two writes and sites send again what
\* may be under way still.
RowHasObject ==
  /\ \A m \in asset : object[ObjectKey(m)] = m
  /\ \A f \in Existing(attachment) : object[ObjectKey(<<attachment[f], f>>)] = <<attachment[f], f>>

\* sinkronisasi.md: a site that was told 200 or 201 may refer to the file by its id: the
\* row is its own, if no other site sent the same id at the same time.
ToldIsKept == \A x \in told : attachment[x[2]] = x[1] \/ x[2] \in clashed

\* What the server says it has, to the back office or to a site, it has.
UploadsKept == RowHasObject /\ ToldIsKept

\* sinkronisasi.md: sending again is safe.  A file a site begins to send arrives and the
\* site learns of it, whatever is lost on the way; not if it is too large, or the id
\* belongs to another site.
FileGetsThrough ==
  \A o \in Outpost, f \in File \ TooLarge :
    <<o, f>> \in sent ~> <<o, f>> \in told \/ attachment[f] \notin {None, o}
================================================================================
