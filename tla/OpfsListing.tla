----------------------------- MODULE OpfsListing -----------------------------
(***************************************************************************)
(* How a worker lists the databases in the origin private file system, and *)
(* deletes one, while other workers make and use databases there: each is  *)
(* a directory with a file "database", in one directory for all of them.   *)
(*                                                                         *)
(* The file system is external: a listing goes on from one call to the     *)
(* next, and a directory is not removed while a file in it is open.        *)
(***************************************************************************)
EXTENDS Naturals, FiniteSets

CONSTANTS Databases

VARIABLES
  root,         \* whether there is the directory for all databases
  entry,        \* of a database: "absent", "directory" or "database"
  open,         \* the databases whose file is open
  removing,     \* the database that is being removed, if any
  listing,      \* what the listing does next, and the directory it is at
  visited,      \* the directories it has come to
  listed,       \* what it has found
  since         \* the databases that were there ever, and always, since it began

listingVars == <<root, entry, open, removing, listing, visited, listed, since>>
fileState == <<root, entry, open, removing>>
listState == <<listing, visited, listed>>

-----------------------------------------------------------------------------
Nowhere == <<"idle">>

ListingInit ==
  /\ root = FALSE
  /\ entry = [d \in Databases |-> "absent"]
  /\ open = {} /\ removing = {}
  /\ listing = Nowhere /\ visited = {} /\ listed = {}
  /\ since = [ever |-> {}, always |-> {}]

There == {d \in Databases : entry[d] = "database"}

\* What the listing could have found is followed while it goes on.
Follows ==
  since' = [ever |-> since.ever \cup There', always |-> since.always \cap There']

\* A worker that starts makes the directories, then the file, and opens it.
MakeDirectory(d) ==
  /\ entry[d] = "absent" /\ d \notin removing
  /\ root' = TRUE
  /\ entry' = [entry EXCEPT ![d] = "directory"]
  /\ UNCHANGED <<open, removing, listState>> /\ Follows

MakeDatabase(d) ==
  /\ entry[d] = "directory"
  /\ entry' = [entry EXCEPT ![d] = "database"]
  /\ UNCHANGED <<root, open, removing, listState>> /\ Follows

UseDatabase(d) ==
  /\ entry[d] = "database" /\ d \notin open
  /\ open' = open \cup {d}
  /\ UNCHANGED <<root, entry, removing, listState>> /\ Follows

LeaveDatabase(d) ==
  /\ d \in open
  /\ open' = open \ {d}
  /\ UNCHANGED <<root, entry, removing, listState>> /\ Follows

\* Without the directory for all there is nothing to remove.
BeginRemove(d) ==
  /\ removing = {}
  /\ removing' = IF root THEN {d} ELSE {}
  /\ UNCHANGED <<root, entry, open, listState>> /\ Follows

\* An error is ignored: what is in use stays, and is not said to.
EndRemove(d) ==
  /\ d \in removing
  /\ removing' = {}
  /\ entry' = IF d \in open THEN entry ELSE [entry EXCEPT ![d] = "absent"]
  /\ UNCHANGED <<root, open, listState>> /\ Follows

BeginList ==
  /\ listing = Nowhere
  /\ listing' = IF root THEN <<"next">> ELSE <<"done">>
  /\ since' = [ever |-> There, always |-> There]
  /\ UNCHANGED <<fileState, visited, listed>>

NextDirectory ==
  /\ listing = <<"next">>
  /\ LET left == {d \in Databases \ visited : entry[d] # "absent"}
     IN  \/ /\ left = {}
            /\ listing' = <<"done">>
            /\ UNCHANGED visited
         \/ \E d \in left :
              /\ listing' = <<"at", d>>
              /\ visited' = visited \cup {d}
  /\ UNCHANGED <<fileState, listed>> /\ Follows

\* a plausible mistake: the directory is taken for the database
TakesDirectory(d) == TRUE
\* Whether the file can be got: a directory without it is passed over.
HasFile(d) == entry[d] = "database"

LookForFile ==
  /\ listing[1] = "at"
  /\ LET d == listing[2]
     IN  listed' = IF HasFile(d) THEN listed \cup {d} ELSE listed
  /\ listing' = <<"next">>
  /\ UNCHANGED <<fileState, visited>> /\ Follows

ListingNext ==
  \/ \E d \in Databases :
       \/ MakeDirectory(d) \/ MakeDatabase(d) \/ UseDatabase(d) \/ LeaveDatabase(d)
       \/ BeginRemove(d) \/ EndRemove(d)
  \/ BeginList \/ NextDirectory \/ LookForFile

ListingSpec == ListingInit /\ [][ListingNext]_listingVars

-----------------------------------------------------------------------------
(* Properties *)

\* The state of the file system and of the listing.
ListingTypeOK ==
  /\ root \in BOOLEAN
  /\ entry \in [Databases -> {"absent", "directory", "database"}]
  /\ open \subseteq There
  /\ removing \subseteq Databases /\ Cardinality(removing) <= 1
  /\ visited \subseteq Databases /\ listed \subseteq visited
  /\ since.always \subseteq since.ever

\* A listing has every database that was there all the time, and none that was
\* not there at any time: not one that was about to be made, or made again.
ListsDatabases ==
  /\ listed \subseteq since.ever
  /\ listing = <<"done">> => since.always \subseteq listed
=============================================================================
