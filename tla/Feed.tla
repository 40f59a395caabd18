-------------------------------- MODULE Feed --------------------------------
(***************************************************************************)
(* What the guest's event stream promises its Mac client: the listener     *)
(* events of one session read as edits of one set.  A session starts with  *)
(* a snapshot; after it an add names a listener the client does not have,  *)
(* and a del one that it has.  Losing the session loses the view.          *)
(***************************************************************************)
CONSTANT Listener   \* guest listeners: (proto, port, addr)

VARIABLES up,       \* the client has had this session's snapshot
          view      \* the listeners the client has been told of

feedVars == <<up, view>>

FeedTypeOK == up \in BOOLEAN /\ view \in SUBSET Listener

FeedInit == up = FALSE /\ view = {}

FeedSnapshot(S) == ~up /\ up' = TRUE /\ view' = S
FeedAdd(l) == up /\ l \notin view /\ view' = view \cup {l} /\ UNCHANGED up
FeedDel(l) == up /\ l \in view /\ view' = view \ {l} /\ UNCHANGED up
FeedDrop == up' = FALSE /\ view' = {}

FeedNext ==
  \/ \E S \in SUBSET Listener : FeedSnapshot(S)
  \/ \E l \in Listener : FeedAdd(l) \/ FeedDel(l)
  \/ FeedDrop

FeedSpec == FeedInit /\ [][FeedNext]_feedVars
=============================================================================
