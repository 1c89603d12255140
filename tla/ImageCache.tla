----------------------------- MODULE ImageCache ------------------------------
(***************************************************************************)
(* The image cache (core/message, imgCache), which hands a picture someone *)
(* sent to their next message.  Entries of different senders never meet,   *)
(* so the module follows one sender: the goroutines that download each of  *)
(* their images (onImage), their conversations, whose workers pop the      *)
(* image at the start of each turn, and the cleaner.  sync.Map makes each  *)
(* Load, Store and Delete atomic and no two of them together.  Variants    *)
(* are faulty forms of the step they precede, used by no CacheNext step. *)
(***************************************************************************)
EXTENDS Integers, Sequences, Functions

CONSTANTS Image,     \* the sender's images: 1 .. how many
          Chats,     \* the sender's conversations
          Ttl,       \* Handler.ImageTTL, in ticks of the clock
          CacheAge,  \* the cleaner's ten minutes, in ticks
          MaxNow,    \* bound: the clock
          MaxPops    \* bound: turns of each conversation

ASSUME ImageAssumption ==
  /\ Image \subseteq Nat \ {0}
  /\ Ttl \in Nat \ {0} /\ CacheAge \in Nat \ {0} /\ MaxNow \in Nat /\ MaxPops \in Nat

VARIABLES
  now,      \* the clock
  entry,    \* the sender's entry, the image and when it was stored, or None
  onImage,  \* where the handler of each image is
  turns,    \* turns each conversation has begun
  pop,      \* where each conversation's PopImage is
  loaded,   \* the entry it has loaded
  sweep,    \* the entry the cleaner has found too old, or None
  used,     \* history: the images each conversation's requests carried
  fate,     \* history: what became of each stored image, and how old it was
  raced     \* history: images stored inside another entry's Load and Delete

cacheVars == <<now, entry, onImage, turns, pop, loaded, sweep, used, fate, raced>>

None == [image |-> 0, at |-> 0]
Entry == [image : Image, at : 0 .. MaxNow]
Age(e) == now - e.at

CacheTypeOK ==
  /\ now \in 0 .. MaxNow
  /\ entry \in Entry \cup {None}
  /\ onImage \in [Image -> {"none", "download", "done"}]
  /\ turns \in [Chats -> 0 .. MaxPops]
  /\ pop \in [Chats -> {"idle", "delete", "check"}]
  /\ loaded \in [Chats -> Entry \cup {None}]
  /\ sweep \in Entry \cup {None}
  /\ used \in [Chats -> Seq(Image)]
  /\ fate \in [Image -> [how : {"none", "stored", "popped", "replaced", "swept", "expired"},
                         age : 0 .. MaxNow]]
  /\ raced \in SUBSET Image

CacheInit ==
  /\ now = 0
  /\ entry = None /\ sweep = None
  /\ onImage = [i \in Image |-> "none"]
  /\ turns = [c \in Chats |-> 0]
  /\ pop = [c \in Chats |-> "idle"]
  /\ loaded = [c \in Chats |-> None]
  /\ used = [c \in Chats |-> <<>>]
  /\ fate = [i \in Image |-> [how |-> "none", age |-> 0]]
  /\ raced = {}

-----------------------------------------------------------------------------
Tick ==
  /\ now < MaxNow
  /\ now' = now + 1
  /\ UNCHANGED <<entry, onImage, turns, pop, loaded, sweep, used, fate, raced>>

(* What the stored image meets when the entry is overwritten or deleted.   *)
Ends(how) == [fate EXCEPT ![entry.image] = [how |-> how, age |-> Age(entry)]]

(* onImage: guards, GetPicture, CacheImage.  It returns early when it is   *)
(* not for the bot, cannot be downloaded or is not an image.               *)
GetPicture(i) ==
  /\ onImage[i] = "none"
  /\ \A j \in Image : j < i => onImage[j] # "none"
  /\ onImage' = [onImage EXCEPT ![i] = "download"]
  /\ UNCHANGED <<now, entry, turns, pop, loaded, sweep, used, fate, raced>>

GivesUp(i) ==
  /\ onImage[i] = "download"
  /\ onImage' = [onImage EXCEPT ![i] = "done"]
  /\ UNCHANGED <<now, entry, turns, pop, loaded, sweep, used, fate, raced>>

CacheImage(i) ==
  /\ onImage[i] = "download"
  /\ onImage' = [onImage EXCEPT ![i] = "done"]
  /\ entry' = [image |-> i, at |-> now]
  /\ fate' = [(IF entry # None THEN Ends("replaced") ELSE fate)
              EXCEPT ![i] = [how |-> "stored", age |-> 0]]
  /\ raced' = IF sweep # None \/ \E c \in Chats : pop[c] = "delete"
                THEN raced \cup {i} ELSE raced
  /\ UNCHANGED <<now, turns, pop, loaded, sweep, used>>

(* PopImage: Load, Delete, and a look at the age.                          *)
PopFindsNothing(c) ==
  /\ pop[c] = "idle" /\ turns[c] < MaxPops
  /\ entry = None
  /\ turns' = [turns EXCEPT ![c] = @ + 1]
  /\ UNCHANGED <<now, entry, onImage, pop, loaded, sweep, used, fate, raced>>

PopLoad(c) ==
  /\ pop[c] = "idle" /\ turns[c] < MaxPops
  /\ entry # None
  /\ turns' = [turns EXCEPT ![c] = @ + 1]
  /\ loaded' = [loaded EXCEPT ![c] = entry]
  /\ pop' = [pop EXCEPT ![c] = "delete"]
  /\ UNCHANGED <<now, entry, onImage, sweep, used, fate, raced>>

(* Variant: the image is read and left where it is.                        *)
PopDeleteNothing(c) ==
  /\ pop[c] = "delete"
  /\ pop' = [pop EXCEPT ![c] = "check"]
  /\ UNCHANGED <<now, entry, onImage, turns, loaded, sweep, used, fate, raced>>

(* Whatever the entry is by now, it goes.                                  *)
PopDelete(c) ==
  /\ pop[c] = "delete"
  /\ pop' = [pop EXCEPT ![c] = "check"]
  /\ entry' = None
  /\ fate' = IF entry = None THEN fate ELSE Ends("popped")
  /\ UNCHANGED <<now, onImage, turns, loaded, sweep, used, raced>>

PopCheck(c) ==
  /\ pop[c] = "check"
  /\ pop' = [pop EXCEPT ![c] = "idle"]
  /\ used' = IF Age(loaded[c]) > Ttl THEN used
             ELSE [used EXCEPT ![c] = Append(@, loaded[c].image)]
  /\ fate' = IF Age(loaded[c]) > Ttl
               THEN [fate EXCEPT ![loaded[c].image].how = "expired"] ELSE fate
  /\ loaded' = [loaded EXCEPT ![c] = None]
  /\ UNCHANGED <<now, entry, onImage, turns, sweep, raced>>

(* The cleaner: Range shows it an entry, and it deletes the key when the   *)
(* entry it was shown is too old.                                          *)
FindExpired ==
  /\ sweep = None
  /\ entry # None /\ Age(entry) > CacheAge
  /\ sweep' = entry
  /\ UNCHANGED <<now, entry, onImage, turns, pop, loaded, used, fate, raced>>

DeleteExpired ==
  /\ sweep # None
  /\ sweep' = None
  /\ entry' = None
  /\ fate' = IF entry = None THEN fate ELSE Ends("swept")
  /\ UNCHANGED <<now, onImage, turns, pop, loaded, used, raced>>

(* The bounds on time, images and turns are used up.                       *)
Over ==
  /\ now = MaxNow
  /\ \A i \in Image : onImage[i] = "done"
  /\ \A c \in Chats : turns[c] = MaxPops /\ pop[c] = "idle"
  /\ UNCHANGED cacheVars

CacheNext ==
  \/ Tick \/ FindExpired \/ DeleteExpired \/ Over
  \/ \E i \in Image : GetPicture(i) \/ GivesUp(i) \/ CacheImage(i)
  \/ \E c \in Chats : PopFindsNothing(c) \/ PopLoad(c) \/ PopDelete(c) \/ PopCheck(c)

CacheSpec == CacheInit /\ [][CacheNext]_cacheVars
-----------------------------------------------------------------------------
Before(c, i, j) == i < j /\ used[c][i] = used[c][j]

(* A conversation's requests never carry the same picture twice, however   *)
(* the other conversation's pops, later images and the cleaner interleave  *)
(* with its own.                                                           *)
OncePerConversation ==
  \A c \in Chats : \A i, j \in DOMAIN used[c] : ~Before(c, i, j)

(* A picture is dropped unused only when it was replaced, or had outlived  *)
(* Ttl or CacheAge, unless it was stored between the two steps of a pop or *)
(* of the cleaner, both of which delete by key whatever is there by then.  *)
LostOnlyInRace ==
  \A i \in Image \ raced :
    /\ fate[i].how = "swept" => fate[i].age > CacheAge
    /\ fate[i].how = "popped" =>
         \E c \in Chats : i \in Range(used[c]) \/ loaded[c].image = i

(* Each picture goes to its conversation once and is not lost for nothing. *)
EveryPictureOnce == CacheTypeOK /\ OncePerConversation /\ LostOnlyInRace
=============================================================================
