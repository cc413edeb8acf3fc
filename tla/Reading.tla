------------------------------ MODULE Reading -------------------------------
(***************************************************************************)
(* The timeline and its reader: Select of internal/ingest/timeline.go,     *)
(* internal/reading/reading.go and the handlers timeline, mark and         *)
(* collections of internal/web/reading.go.                                 *)
(*                                                                         *)
(* Items are listed by the date of the table logical_item, a page at a     *)
(* time; the link to older items carries the date the last item shows,     *)
(* that of its observation.  A reader follows the links while items come,  *)
(* change and go, and marks are set from other pages.                      *)
(***************************************************************************)
EXTENDS Naturals, FiniteSets

CONSTANTS
  Items,       \* keys
  Feeds,       \* sources
  None,
  Page,        \* timelinePage
  Dates,       \* dates are 1..Dates
  MaxMeanwhile   \* bound on arrivals, marks and the like

VARIABLES
  item,        \* the listed items (table logical_item)
  marks,       \* table read_state: when each item was read and saved, 0 if not
  hidden,      \* items a block hides
  collection,  \* the sources of the reader's collection
  walk,        \* the reader on the way through the pages
  meanwhile    \* how many changes there have been

vars == <<item, marks, hidden, collection, walk, meanwhile>>

Absent == [here |-> FALSE, order |-> 0, shown |-> 0, feed |-> None]
NoWalk == [pc |-> "away", view |-> "all", cut |-> 0, seen |-> {}, want |-> {}, even |-> TRUE]

\* A row is listed by its published date or else the time it converged at; it
\* shows its published or else its updated date (the first of all), or none.
Rows ==
  UNION {{[here |-> TRUE, order |-> d, shown |-> s, feed |-> f] : s \in {0, 1, d}, f \in Feeds} : d \in 1..Dates}

Dated(row) == row.shown = row.order

\* CollectionSources: an empty or deleted collection restricts nothing.
InCollection(f, sources) == sources = {} \/ f \in sources

Belongs(view, row, mark, sources) ==
  /\ row.here
  /\ view = "unread" => mark.read = 0
  /\ view = "saved" => mark.saved # 0
  /\ view = "collection" => InCollection(row.feed, sources)

Members(view) == {k \in Items : Belongs(view, item[k], marks[k], collection)}

\* The order of a view.
Rank(view, k) == IF view = "saved" THEN marks[k].saved ELSE item[k].order

\* Mutant: the cutoff is one too far.
BeforeFar(k, cut) == item[k].order + 1 < cut

\* The cutoff is on the date of the list in every view.
Before(k, cut) == item[k].order < cut

\* Select: the first items of the view before the cutoff; the database chooses
\* between equals.
Select(view, cut) ==
  LET left == {k \in Members(view) : Before(k, cut)}
  IN  {P \in SUBSET left :
         /\ Cardinality(P) = IF Cardinality(left) < Page THEN Cardinality(left) ELSE Page
         /\ \A k \in P, l \in left \ P : Rank(view, k) >= Rank(view, l)}

Oldest(view, P) == {k \in P : \A l \in P : Rank(view, l) >= Rank(view, k)}

-----------------------------------------------------------------------------
(* The reader *)

VisibleItems(P) == P \ hidden

\* The date in the link to older items, 0 for no link.
MoreLink(last) == item[last].shown

Open(view) ==
  /\ walk.pc = "away"
  /\ walk' = [NoWalk EXCEPT !.pc = "page", !.view = view, !.cut = 2 * Dates, !.want = Members(view) \ hidden]
  /\ UNCHANGED <<item, marks, hidden, collection, meanwhile>>

\* Whether a page broke off evenly: nothing of it was hidden, and what it ended
\* with has a date of its own.
Even(P, last) ==
  /\ P \cap hidden = {} /\ Dated(item[last])
  /\ \A k \in Members(walk.view) \ P : item[k].order # item[last].order

\* timeline and visibleItems: the link to older items is there if what is left
\* after the blocks is a full page and its last item shows a date.
Turn ==
  /\ walk.pc = "page"
  /\ \E P \in Select(walk.view, walk.cut) :
       LET visible == VisibleItems(P)
       IN  IF Cardinality(visible) = Page
           THEN \E last \in Oldest(walk.view, visible) :
                  walk' = [walk EXCEPT !.seen = @ \cup visible, !.cut = MoreLink(last),
                                       !.pc = IF MoreLink(last) = 0 THEN "end" ELSE "page",
                                       !.even = @ /\ Even(P, last)]
           ELSE walk' = [walk EXCEPT !.seen = @ \cup visible, !.pc = "end",
                                     !.even = @ /\ P \cap hidden = {}]
  /\ UNCHANGED <<item, marks, hidden, collection, meanwhile>>

Leave ==
  /\ walk.pc = "end" /\ walk' = NoWalk
  /\ UNCHANGED <<item, marks, hidden, collection, meanwhile>>

-----------------------------------------------------------------------------
(* Meanwhile *)

Change == walk.pc # "end" /\ meanwhile < MaxMeanwhile /\ meanwhile' = meanwhile + 1

\* The reader cannot count on an item any more that changed or left the view.
Follow ==
  walk' = [walk EXCEPT !.want =
            {k \in @ : item'[k] = item[k] /\ k \notin hidden'
                       /\ Belongs(walk.view, item'[k], marks'[k], collection')}]

\* An item is listed, edited or withdrawn (module Ingest).
Converge(k, row) ==
  /\ Change /\ item[k] # row /\ item' = [item EXCEPT ![k] = row]
  /\ UNCHANGED <<marks, hidden, collection>> /\ Follow

\* touch: the other mark stays.
Touched(k, column, value) == [marks EXCEPT ![k][column] = value]

\* mark, for one of the keys of a request.
Touch(k, column, value) ==
  /\ Change /\ marks[k][column] # value /\ marks' = Touched(k, column, value)
  /\ UNCHANGED <<item, hidden, collection>> /\ Follow

\* MarkAllRead: also what no page showed, but nothing dated later.
MarkAllRead(now) ==
  /\ Change
  /\ marks' = [k \in Items |->
                 IF item[k].here /\ item[k].order <= now /\ marks[k].read = 0
                 THEN [marks[k] EXCEPT !.read = now] ELSE marks[k]]
  /\ marks' # marks
  /\ UNCHANGED <<item, hidden, collection>> /\ Follow

\* AddToCollection, RemoveFromCollection, DeleteCollection.
Collect(sources) ==
  /\ Change /\ collection # sources /\ collection' = sources
  /\ UNCHANGED <<item, marks, hidden>> /\ Follow

\* A block or its removal (module Moderation).
Hide(k) ==
  /\ Change /\ hidden' = IF k \in hidden THEN hidden \ {k} ELSE hidden \cup {k}
  /\ UNCHANGED <<item, marks, collection>> /\ Follow

Unread ==
  /\ marks = [k \in Items |-> [read |-> 0, saved |-> 0]]
  /\ hidden = {} /\ collection = {} /\ walk = NoWalk /\ meanwhile = 0

Init == item \in [Items -> Rows \cup {Absent}] /\ Unread

Next ==
  \/ \E view \in {"all", "unread", "saved", "collection"} : Open(view)
  \/ Turn \/ Leave
  \/ \E k \in Items :
       \/ \E row \in Rows \cup {Absent} : Converge(k, row)
       \/ \E column \in {"read", "saved"}, value \in {0, Dates} : Touch(k, column, value)
       \/ Hide(k)
  \/ \E now \in 1..Dates : MarkAllRead(now)
  \/ \E sources \in SUBSET Feeds : Collect(sources)

Spec == Init /\ [][Next]_vars

-----------------------------------------------------------------------------
(* Properties *)

\* Whoever follows the links to the end has seen every item that was in the view
\* all the while, whatever came, went and was marked meanwhile, unless a page
\* ended unevenly: with an item of which another shares the date, or one that
\* is listed by another date than it shows, or short of an item that is hidden.
\* Saved items are in the order of saving and the cutoff is on another date.
SeesAll == walk.pc = "end" /\ walk.even /\ walk.view # "saved" => walk.want \subseteq walk.seen

=============================================================================
