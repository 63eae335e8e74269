---------------------------- MODULE AvatarStorage ----------------------------
(***************************************************************************)
(* The avatar of one account: the column users.avatar and the objects in   *)
(* the S3 bucket that it points to, an original and its smaller variants.  *)
(* Column and bucket are changed one after the other, and the objects of   *)
(* one image all at once (Promise.all).  The account may be deleted, with  *)
(* its avatar, while other requests work on it.                            *)
(*                                                                         *)
(* An image carries the name of the request that uploads it (its uuid); an *)
(* object is <<image, key>>.                                               *)
(***************************************************************************)
CONSTANTS
    Requests,
    Variants,   \* IMAGE_VARIANT_CONFIGS
    Original,   \* key of the original
    None        \* no avatar

ASSUME NoneIsNoImage == None \notin Requests
ASSUME OriginalIsNoVariant == Original \notin Variants

Keys == Variants \cup {Original}
Image == Requests \cup {None}

VARIABLES
    exists,   \* the account has its row in users
    avatar,   \* the column
    bucket,   \* the objects stored
    task      \* local state of each request's handler

vars == <<exists, avatar, bucket, task>>

Task == [pc     : {"put", "generate", "putVariants", "erase", "loaded", "write", "done",
                   "failed"},
         kind   : {"upload", "image", "delete", "profile", "password", "remove"},
         seen   : Image,          \* avatar of the entity loaded
         new    : Image,          \* avatar of the entity when it is saved
         calls  : SUBSET Keys,    \* S3 calls under way
         broken : SUBSET Keys,    \* S3 calls that failed
         save   : {"none", "update", "insert"}]  \* what save() has to issue

NotCome == [pc |-> "idle"]

Goto(r, step) == task' = [task EXCEPT ![r].pc = step]

Init ==
    /\ exists = TRUE /\ avatar = None
    /\ bucket = {}
    /\ task = [r \in Requests |-> NotCome]

(* A request of an account that is gone ends here.                         *)
Load(r, k, n, step, objects) ==
    /\ task[r] = NotCome
    /\ task' = [task EXCEPT ![r] =
                  [pc |-> IF exists THEN step ELSE "failed", kind |-> k, seen |-> avatar,
                   new |-> n, calls |-> IF exists THEN objects ELSE {}, broken |-> {},
                   save |-> "none"]]
    /\ UNCHANGED <<exists, avatar, bucket>>

\* faulty: saves the entity while the original is under way
SaveBeforePut(r) == Load(r, "upload", r, "loaded", {Original})

(* PATCH me/avatar; POST uploads/image uploads likewise and saves nothing. *)
UploadAvatar(r) == Load(r, "upload", r, "put", {})
UploadImage(r)  == Load(r, "image", r, "put", {})

(* Both load the avatar along with the rest.                               *)
UpdateProfile(r)  == Load(r, "profile", avatar, "loaded", {})
ChangePassword(r) == Load(r, "password", avatar, "loaded", {})

\* faulty: forgets the variants
DeleteOriginal(r) == Load(r, "delete", None, IF avatar = None THEN "done" ELSE "erase",
                          IF avatar = None THEN {} ELSE {Original})

DeleteAvatar(r) == Load(r, "delete", None, IF avatar = None THEN "done" ELSE "erase",
                        IF avatar = None THEN {} ELSE Keys)

DeleteUser(r) == Load(r, "remove", None, IF avatar = None THEN "loaded" ELSE "erase",
                      IF avatar = None THEN {} ELSE Keys)

-----------------------------------------------------------------------------
(* uploadImageWithVariants: a failure of the original fails the request.   *)
PutOriginal(r) ==
    /\ task[r].pc = "put"
    /\ \/ bucket' = bucket \cup {<<r, Original>>} /\ Goto(r, "generate")
       \/ UNCHANGED bucket /\ Goto(r, "failed")
    /\ UNCHANGED <<exists, avatar>>

(* sharp may fail on any of the variants; the others are uploaded.         *)
GenerateVariants(r) ==
    /\ task[r].pc = "generate"
    /\ \E made \in SUBSET Variants :
         task' = [task EXCEPT ![r].pc = "putVariants", ![r].calls = made]
    /\ UNCHANGED <<exists, avatar, bucket>>

(* A call goes on to its end even if the handler no longer waits for it.   *)
PutVariant(r, k) ==
    /\ task[r].pc # "idle" /\ task[r].kind \in {"upload", "image"}
    /\ k \in task[r].calls
    /\ \/ /\ bucket' = bucket \cup {<<r, k>>}
          /\ task' = [task EXCEPT ![r].calls = @ \ {k}]
       \/ /\ task' = [task EXCEPT ![r].calls = @ \ {k}, ![r].broken = @ \cup {k}]
          /\ UNCHANGED bucket
    /\ UNCHANGED <<exists, avatar>>

\* faulty: does not wait for the uploads
VariantsLaunched(r) ==
    /\ task[r].pc = "putVariants"
    /\ Goto(r, IF task[r].kind = "upload" THEN "loaded" ELSE "done")
    /\ UNCHANGED <<exists, avatar, bucket>>

(* Promise.all ends with the last success or the first failure, which is   *)
(* only logged.                                                            *)
VariantsUploaded(r) ==
    /\ task[r].pc = "putVariants"
    /\ task[r].calls = {} \/ task[r].broken # {}
    /\ Goto(r, IF task[r].kind = "upload" THEN "loaded" ELSE "done")
    /\ UNCHANGED <<exists, avatar, bucket>>

(* deleteImageWithVariants: every key, and a failure is only logged.       *)
DeleteObject(r, k) ==
    /\ task[r].pc # "idle" /\ task[r].kind \in {"delete", "remove"}
    /\ k \in task[r].calls
    /\ \/ /\ bucket' = bucket \ {<<task[r].seen, k>>}
          /\ task' = [task EXCEPT ![r].calls = @ \ {k}]
       \/ /\ task' = [task EXCEPT ![r].calls = @ \ {k}, ![r].broken = @ \cup {k}]
          /\ UNCHANGED bucket
    /\ UNCHANGED <<exists, avatar>>

ObjectsDeleted(r) ==
    /\ task[r].pc = "erase" /\ task[r].calls = {}
    /\ Goto(r, "loaded")
    /\ UNCHANGED <<exists, avatar, bucket>>

(* deleteUser: the row, and by cascade what belongs to it.                 *)
RemoveUser(r) ==
    /\ task[r].pc = "loaded" /\ task[r].kind = "remove"
    /\ exists' = FALSE /\ avatar' = None
    /\ Goto(r, "done")
    /\ UNCHANGED bucket

(* save(): select the row and compare; a row that is not there is inserted *)
(* and one that differs is updated.                                        *)
SelectForSave(r) ==
    /\ task[r].pc = "loaded" /\ task[r].kind # "remove"
    /\ task' = [task EXCEPT ![r].pc = "write",
                            ![r].save = IF ~exists THEN "insert"
                                        ELSE IF task[r].new # avatar THEN "update" ELSE "none"]
    /\ UNCHANGED <<exists, avatar, bucket>>

\* faulty: every request loads the columns an INSERT needs
MayInsertWhole(r) == ~exists

(* The INSERT needs a password, and only changePassword has loaded it.     *)
MayInsert(r) == task[r].kind = "password" /\ ~exists

SaveUser(r) ==
    /\ task[r].pc = "write"
    /\ LET insert == task[r].save = "insert" IN
         \/ /\ insert => MayInsert(r)
            /\ exists' = (exists \/ insert)
            /\ avatar' = IF exists' /\ task[r].save # "none" THEN task[r].new ELSE avatar
            /\ Goto(r, "done")
         \/ /\ insert /\ ~MayInsert(r)
            /\ Goto(r, "failed")
            /\ UNCHANGED <<exists, avatar>>
    /\ UNCHANGED bucket

(* The process dies or the database refuses; S3 may still carry out what   *)
(* it has been sent.                                                       *)
Abort(r) ==
    /\ task[r].pc \notin {"idle", "done", "failed"}
    /\ Goto(r, "failed")
    /\ UNCHANGED <<exists, avatar, bucket>>

Next ==
    \E r \in Requests :
      \/ UploadAvatar(r) \/ UploadImage(r) \/ UpdateProfile(r) \/ ChangePassword(r)
      \/ DeleteAvatar(r) \/ DeleteUser(r)
      \/ PutOriginal(r) \/ GenerateVariants(r) \/ VariantsUploaded(r)
      \/ \E k \in Keys : PutVariant(r, k) \/ DeleteObject(r, k)
      \/ ObjectsDeleted(r)
      \/ RemoveUser(r) \/ SelectForSave(r) \/ SaveUser(r)
      \/ Abort(r)

Spec == Init /\ [][Next]_vars

-----------------------------------------------------------------------------
(* Type invariant of the row, the bucket and the handlers.                 *)
TypeOK ==
    /\ exists \in BOOLEAN /\ avatar \in Image
    /\ bucket \subseteq Requests \X Keys
    /\ task \in [Requests -> {NotCome} \cup Task]
    /\ \A r \in Requests : task[r].pc = "erase" => task[r].seen # None

(* q has written an avatar, its own or one that it had loaded before.      *)
Saved(q) == task[q].pc = "done" /\ task[q].save # "none"

(* q is to delete the objects of image i, or has done so.                  *)
Deletes(q, i) == /\ task[q].pc # "idle" /\ task[q].kind \in {"delete", "remove"}
                 /\ task[q].seen = i

(* The avatar of an account can be loaded: the original it names is in the *)
(* bucket.  Otherwise a deletion of that very image is half done or was    *)
(* cut off, or it was done and updateProfile or changePassword has then    *)
(* saved the avatar that it had loaded before.                             *)
AvatarIsStored ==
    avatar # None /\ <<avatar, Original>> \notin bucket =>
      \E q \in Requests :
        /\ Deletes(q, avatar)
        /\ \/ task[q].pc # "done"
           \/ \E p \in Requests : /\ Saved(p) /\ task[p].kind \in {"profile", "password"}
                                  /\ task[p].new = avatar

(* When deleteAvatar or deleteUser has answered, each object of the image  *)
(* is gone but those whose deletion failed, and those whose upload was     *)
(* still under way when a sibling's failure ended the wait for it.         *)
DeletedIsGone ==
    \A r \in Requests, k \in Keys :
      /\ task[r].pc = "done" /\ task[r].seen # None /\ Deletes(r, task[r].seen)
      /\ <<task[r].seen, k>> \in bucket
      => \/ k \in task[r].broken
         \/ k # Original /\ task[task[r].seen].broken # {}

(* Why the bucket keeps an object <<i, k>> although i is not the avatar.   *)
Explained(i, k) ==
    \/ task[i].kind = "image" \/ task[i].pc # "done"
    \/ \E q \in Requests \ {i} :
         \/ Saved(q) /\ ~Deletes(q, i)
         \/ task[q].pc = "done" /\ task[q].kind = "remove" /\ ~Deletes(q, i)
         \/ Deletes(q, i) /\ (task[q].pc # "done" \/ k \in task[q].broken)
    \/ k # Original /\ task[i].broken # {}

(* What the bucket keeps although no avatar names it: images uploaded as   *)
(* such, uploads that did not get to save their avatar, avatars that       *)
(* another request has replaced or removed unawares, and what a deletion   *)
(* that is under way, was cut off or failed has left.                      *)
LeftoversExplained ==
    \A i \in Requests, k \in Keys :
      <<i, k>> \in bucket /\ avatar # i => Explained(i, k)

(* A deleted account is gone, unless changePassword, which had loaded it   *)
(* before, has inserted it again.                                          *)
AccountStaysDeleted ==
    exists => \A r \in Requests :
      task[r].pc = "done" /\ task[r].kind = "remove"
      => \E q \in Requests : Saved(q) /\ task[q].kind = "password" /\ task[q].save = "insert"

-----------------------------------------------------------------------------
(* The image that a request uploads is stored under its own name, and has  *)
(* its variants uploaded, but for failures, before the avatar is saved;    *)
(* a deletion sees its calls to their end before it saves.                 *)
TaskFits(r) ==
    /\ task[r].pc # "idle" /\ task[r].kind \in {"upload", "image"} =>
         /\ task[r].new = r
         /\ task[r].calls \subseteq Variants
         /\ task[r].pc \in {"loaded", "write", "done"} =>
              task[r].calls = {} \/ task[r].broken # {}
         /\ task[r].pc = "write" => task[r].save # "none"
         /\ task[r].kind = "image" => task[r].save = "none"
    /\ task[r].pc # "idle" /\ task[r].kind \in {"delete", "remove"} =>
         /\ task[r].new = None
         /\ task[r].pc \in {"loaded", "write", "done"} => task[r].calls = {}
    /\ task[r].pc # "idle" /\ task[r].kind \in {"profile", "password"} =>
         task[r].new = task[r].seen
    /\ task[r].pc \in {"put", "generate", "putVariants"} => task[r].kind \in {"upload", "image"}
    /\ task[r].pc \in {"loaded", "write"} => task[r].kind # "image"
    /\ task[r].pc = "write" => task[r].kind # "remove"
    /\ task[r].pc = "erase" => task[r].kind \in {"delete", "remove"}

(* Image i has become the avatar.                                          *)
Published(i) == task[i].pc = "done" /\ task[i].kind = "upload"

(* What is, or was, somebody's avatar has been published, and its original *)
(* is stored until its deletion.                                           *)
ImagesFit ==
    /\ \A o \in bucket : task[o[1]].pc # "idle" /\ task[o[1]].kind \in {"upload", "image"}
    /\ avatar # None => Published(avatar)
    /\ \A r \in Requests : task[r].pc # "idle" /\ task[r].seen # None => Published(task[r].seen)
    /\ \A i \in Requests :
         /\ task[i].pc \notin {"idle", "put", "failed"} /\ task[i].kind \in {"upload", "image"}
         => <<i, Original>> \in bucket \/ \E q \in Requests : Deletes(q, i)

(* An account that is not there has been deleted, with its avatar.         *)
AccountFits ==
    ~exists => avatar = None /\ \E r \in Requests : task[r].pc = "done" /\ task[r].kind = "remove"

(* Objects that a deletion has dealt with.                                 *)
ErasedAreGone ==
    \A r \in Requests, k \in Keys :
      /\ task[r].pc # "idle" /\ task[r].seen # None /\ Deletes(r, task[r].seen)
      /\ k \notin task[r].calls /\ <<task[r].seen, k>> \in bucket
      => k \in task[r].broken \/ (k # Original /\ task[task[r].seen].broken # {})

(* An image that is the avatar although its deletion is done has been      *)
(* brought back by a save().                                               *)
Restored(i) ==
    \E p \in Requests : /\ Saved(p) /\ task[p].kind \in {"profile", "password"}
                        /\ task[p].new = i

DeletedIsRestored ==
    \A q \in Requests :
      /\ Deletes(q, avatar) /\ avatar # None
      /\ task[q].pc = "done" \/ (task[q].pc = "write" /\ task[q].save = "none")
      => Restored(avatar)

Inv ==
    /\ TypeOK
    /\ \A r \in Requests : TaskFits(r)
    /\ ImagesFit
    /\ AccountFits
    /\ ErasedAreGone
    /\ DeletedIsRestored
    /\ LeftoversExplained
    /\ AccountStaysDeleted
=============================================================================
