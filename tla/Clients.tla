-------------------------------- MODULE Clients --------------------------------
(***************************************************************************)
(* The directory of the firm's clients.  A screen reads it page by page    *)
(* while clients are registered, edited, withdrawn and restored, each in a *)
(* transaction that reads the client and then writes it, and while matters *)
(* are opened for them.  A client is named by the order of created_at,     *)
(* which is the instant its transaction began and not the one it           *)
(* committed.  The legal name stands for both fields a form edits.         *)
(***************************************************************************)
EXTENDS Naturals, FiniteSets, Sequences

CONSTANTS Person,      \* people who use the directory
          Reader,      \* those of them whose screen is followed (bound)
          Name,        \* legal names
          Filter,      \* what the directory is searched for: a name or Absent, a status or Absent (bound)
          MaxClients,  \* bound: registrations begun
          MaxChanges,  \* bound: edits, withdrawals and restorations sent
          Limit,       \* clients on a page: 50
          Absent

ASSUME ClientAssumption ==
  /\ Reader \subseteq Person /\ {MaxClients, MaxChanges} \subseteq Nat /\ Limit \in Nat \ {0}
  /\ Absent \notin Name \cup Nat
  /\ Absent \notin [name : Name, status : {"active", "inactive"}]
  /\ Filter \subseteq [name : Name \cup {Absent}, status : {"active", "inactive", Absent}]
  /\ [name |-> Absent, status |-> Absent] \in Filter

VARIABLES clients,  \* client: clients[c] is the row, or Absent
          begun,    \* registrations whose transaction began
          changes,  \* changes sent
          doing,    \* doing[m]: the request of m the server works on, or the form it fills
          screen,   \* screen[m]: the directory as m sees it
          settled   \* history: the clients that matched since the first of the pages shown was
                    \* read, and the same of the pages that are coming

directoryVars == <<clients, begun, changes, doing, screen, settled>>

Client == 1 .. MaxClients
Row == [name : Name, status : {"active", "inactive"}]
Stored == {c \in Client : clients[c] # Absent}

Free == [phase |-> "idle"]
Does(m, phase) == doing[m].phase = phase
Turns(m, r) == doing' = [doing EXCEPT ![m] = r]
Ends(m) == Turns(m, Free)

\* pages: what the list shows; fetch: the read under way; owed: a change of this screen's
\* own that was acknowledged and is not read back yet.
NotFetching == [kind |-> "none"]
Blank(f) ==
  [filter |-> f, pages |-> <<>>, fetch |-> [kind |-> "all", want |-> 1, got |-> <<>>], owed |-> FALSE]

\* No page was read.
Unread == [shown |-> {}, coming |-> {}]

DirectoryInit ==
  /\ clients = [c \in Client |-> Absent] /\ begun = 0 /\ changes = 0
  /\ doing = [m \in Person |-> Free]
  /\ screen = [m \in Reader |-> Blank([name |-> Absent, status |-> Absent])]
  /\ settled = [m \in Reader |-> Unread]

-----------------------------------------------------------------------------
\* Reading a page.

Matches(f, row) == row # Absent /\ f.name \in {Absent, row.name} /\ f.status \in {Absent, row.status}

\* Mutant: the page starts with the client the cursor names.
FetchedFromCursor(f, cursor) ==
  LET rows == {c \in Stored : Matches(f, clients[c]) /\ (cursor # Absent => c <= cursor)}
  IN  {c \in rows : Cardinality({d \in rows : d > c}) <= Limit}

\* The newest clients past the cursor that match, one more than the page holds.
Fetched(f, cursor) ==
  LET rows == {c \in Stored : Matches(f, clients[c]) /\ (cursor # Absent => c < cursor)}
  IN  {c \in rows : Cardinality({d \in rows : d > c}) <= Limit}

\* The extra row is the proof that there is a next page, and is not shown.
ToPage(rows) ==
  LET newest == {c \in rows : Cardinality({d \in rows : d > c}) < Limit}
  IN  IF Cardinality(rows) <= Limit THEN [items |-> rows, next |-> Absent]
      ELSE [items |-> newest, next |-> CHOOSE c \in newest : \A d \in newest : c <= d]

PageOf(f, cursor) == ToPage(Fetched(f, cursor))

\* A page lists its clients newest first, and the pages follow one another.
Shown(m) == UNION {screen[m].pages[i].items : i \in DOMAIN screen[m].pages}

NextOf(pages) == IF pages = <<>> THEN Absent ELSE pages[Len(pages)].next

HasNext(m) == NextOf(screen[m].pages) # Absent

Screen(m, s) == screen' = [screen EXCEPT ![m] = s]

-----------------------------------------------------------------------------
\* The screen.

\* Typing or picking a filter is another query, read from its first page.
ChooseFilter(m) ==
  /\ m \in Reader
  /\ \E f \in Filter \ {screen[m].filter} : Screen(m, Blank(f))
  /\ settled' = [settled EXCEPT ![m] = Unread]
  /\ UNCHANGED <<clients, begun, changes, doing>>

\* Every page shown is read again, in order, each from the end of the one before.
Refreshing(s) ==
  [s EXCEPT !.fetch = [kind |-> "all", want |-> IF s.pages = <<>> THEN 1 ELSE Len(s.pages), got |-> <<>>]]

\* The window is focused again.
Focus(m) ==
  /\ m \in Reader /\ screen[m].fetch.kind = "none"
  /\ Screen(m, Refreshing(screen[m]))
  /\ UNCHANGED <<clients, begun, changes, doing, settled>>

\* The button "Cargar más" waits for another of its kind and gives up a refresh.
LoadMore(m) ==
  /\ m \in Reader /\ HasNext(m) /\ screen[m].fetch.kind # "more"
  /\ Screen(m, [screen[m] EXCEPT !.fetch = [kind |-> "more"]])
  /\ UNCHANGED <<clients, begun, changes, doing, settled>>

\* What the client keeps of a refresh once it has read another page.
AfterPage(s, page) ==
  LET got == Append(s.fetch.got, page)
  IN  IF page.next = Absent \/ Len(got) = s.fetch.want
      THEN [s EXCEPT !.pages = got, !.fetch = NotFetching, !.owed = FALSE]
      ELSE [s EXCEPT !.fetch.got = got]

\* What matches as the first page is read is to be seen, once the pages are.
Settles(m, s, after) ==
  LET coming == IF s.fetch.got = <<>> THEN {c \in Stored : Matches(s.filter, clients[c])}
                ELSE settled[m].coming
  IN  settled' = [settled EXCEPT ![m] = [shown |-> IF after.fetch = NotFetching THEN coming ELSE @.shown,
                                         coming |-> coming]]

ReadPage(m) ==
  /\ m \in Reader /\ screen[m].fetch.kind = "all"
  /\ LET s == screen[m]
         after == AfterPage(s, PageOf(s.filter, NextOf(s.fetch.got)))
     IN  Screen(m, after) /\ Settles(m, s, after)
  /\ UNCHANGED <<clients, begun, changes, doing>>

ReadMore(m) ==
  /\ m \in Reader /\ screen[m].fetch.kind = "more"
  /\ LET s == screen[m]
         page == PageOf(s.filter, NextOf(s.pages))
     IN  Screen(m, [s EXCEPT !.pages = Append(@, page), !.fetch = NotFetching])
  /\ UNCHANGED <<clients, begun, changes, doing, settled>>

\* Nothing is retried: what was shown stays.
FetchFails(m) ==
  /\ m \in Reader /\ screen[m].fetch.kind # "none"
  /\ Screen(m, [screen[m] EXCEPT !.fetch = NotFetching])
  /\ UNCHANGED <<clients, begun, changes, doing, settled>>

-----------------------------------------------------------------------------
\* The forms and dialogs.  A card may show less than the client is by now, so a member
\* who is not followed is offered anything.

Offers(m) == IF m \in Reader THEN Shown(m) ELSE Stored

\* The form of a new client.
SubmitNew(m) ==
  /\ Does(m, "idle") /\ begun < MaxClients
  /\ \E n \in Name : Turns(m, [phase |-> "insert", client |-> begun + 1, name |-> n])
  /\ begun' = begun + 1
  /\ UNCHANGED <<clients, changes, screen, settled>>

SubmitEdit(m) ==
  /\ Does(m, "idle") /\ changes < MaxChanges /\ changes' = changes + 1
  /\ \E c \in Offers(m), n \in Name : Turns(m, [phase |-> "edit", client |-> c, name |-> n])
  /\ UNCHANGED <<clients, begun, screen, settled>>

\* Withdrawing asks first; restoring is sent as the dialog opens.  The card says which.
SubmitStatus(m) ==
  /\ Does(m, "idle") /\ changes < MaxChanges /\ changes' = changes + 1
  /\ \E c \in Offers(m), status \in {"active", "inactive"} :
       Turns(m, [phase |-> "status", client |-> c, to |-> status])
  /\ UNCHANGED <<clients, begun, screen, settled>>

\* The form of a new matter offers clients of its own list.
SubmitMatter(m) ==
  /\ Does(m, "idle") /\ m \notin Reader
  /\ \E c \in Stored : Turns(m, [phase |-> "matter", client |-> c])
  /\ UNCHANGED <<clients, begun, changes, screen, settled>>

-----------------------------------------------------------------------------
\* The server's statements.

\* A success makes the screen read its pages again, and so does the refusal that says the
\* client is not in the status the card showed.
Learns(m) ==
  IF m \in Reader THEN Screen(m, [Refreshing(screen[m]) EXCEPT !.owed = TRUE]) ELSE UNCHANGED screen

\* What no longer matches is not owed to the reader.
Keep(c, row) ==
  LET kept(m, set) == IF Matches(screen[m].filter, row) THEN set ELSE set \ {c}
  IN  settled' = [m \in Reader |->
                    [shown |-> kept(m, settled[m].shown), coming |-> kept(m, settled[m].coming)]]

Stores(m, c, row) ==
  /\ clients' = [clients EXCEPT ![c] = row] /\ Keep(c, row)
  /\ Ends(m) /\ Learns(m)
  /\ UNCHANGED <<begun, changes>>

Refuses(m) == Ends(m) /\ Learns(m) /\ UNCHANGED <<clients, begun, changes, settled>>

Continues(m, r) == Turns(m, r) /\ UNCHANGED <<clients, begun, changes, screen, settled>>

Insert(m) ==
  /\ Does(m, "insert")
  /\ Stores(m, doing[m].client, [name |-> doing[m].name, status |-> "active"])

\* update: the client as it was, for the audit entry, and the write if it is active still.
EditRead(m) ==
  /\ Does(m, "edit")
  /\ LET row == clients[doing[m].client]
     IN  IF row.status = "active"
         THEN Continues(m, [phase |-> "editWrite", client |-> doing[m].client, name |-> doing[m].name,
                            previous |-> row.name])
         ELSE Refuses(m)

\* Mutant: the write relies on the read.
EditableAsRead(row) == TRUE

Editable(row) == row.status = "active"

EditWrite(m) ==
  /\ Does(m, "editWrite")
  /\ LET c == doing[m].client
     IN  IF Editable(clients[c])
         THEN Stores(m, c, [clients[c] EXCEPT !.name = doing[m].name])
         ELSE Refuses(m)

\* deactivate and reactivate.
StatusRead(m) ==
  /\ Does(m, "status")
  /\ IF clients[doing[m].client].status # doing[m].to
     THEN Continues(m, [doing[m] EXCEPT !.phase = "statusWrite"]) ELSE Refuses(m)

StatusWrite(m) ==
  /\ Does(m, "statusWrite")
  /\ LET c == doing[m].client
     IN  IF clients[c].status # doing[m].to
         THEN Stores(m, c, [clients[c] EXCEPT !.status = doing[m].to])
         ELSE Refuses(m)

\* CaseService.create: the client is active, and later the matter refers to it.
MatterRead(m) ==
  /\ Does(m, "matter")
  /\ Continues(m, IF clients[doing[m].client].status = "active" THEN [doing[m] EXCEPT !.phase = "matterWrite"]
                  ELSE Free)

MatterWrite(m) ==
  /\ Does(m, "matterWrite")
  /\ Continues(m, Free)

DirectoryNext ==
  \E m \in Person :
    \/ ChooseFilter(m) \/ Focus(m) \/ LoadMore(m) \/ ReadPage(m) \/ ReadMore(m) \/ FetchFails(m)
    \/ SubmitNew(m) \/ SubmitEdit(m) \/ SubmitStatus(m) \/ SubmitMatter(m)
    \/ Insert(m) \/ EditRead(m) \/ EditWrite(m) \/ StatusRead(m) \/ StatusWrite(m)
    \/ MatterRead(m) \/ MatterWrite(m)

DirectorySpec == DirectoryInit /\ [][DirectoryNext]_directoryVars

-----------------------------------------------------------------------------
DirectoryTypeOK ==
  /\ clients \in [Client -> Row \cup {Absent}] /\ begun \in 0 .. MaxClients
  /\ \A m \in Reader :
       screen[m].filter \in Filter /\ settled[m] \in [shown : SUBSET Client, coming : SUBSET Client]

\* Paging to the end shows every client that matched all along, and no client twice,
\* whatever was registered, edited or withdrawn meanwhile.  (client.repository.ts list.)
PagesMissNothing ==
  \A m \in Reader :
    LET pages == screen[m].pages
    IN  /\ \A i, j \in DOMAIN pages : i # j => pages[i].items \cap pages[j].items = {}
        /\ pages # <<>> /\ ~HasNext(m) => settled[m].shown \subseteq Shown(m)

\* A page that is not the last is full: filters shorten no page.  (client.repository.ts.)
PagesAreFull ==
  \A m \in Reader : \A i \in DOMAIN screen[m].pages :
    LET page == screen[m].pages[i]
    IN  Cardinality(page.items) < Limit => page.next = Absent /\ i = Len(screen[m].pages)

\* A withdrawn client keeps its name, even when the withdrawal passes between the read and
\* the write of an edit.  (client.repository.ts update.)
WithdrawnIsNotEdited ==
  [][\A c \in Stored : clients[c].status = "inactive" => clients'[c].name = clients[c].name]_directoryVars

\* client.controller.ts says that an entry of the audit log has the previous and the new
\* value of every field that moved.
TrailTellsChanges ==
  [][\A m \in Person :
       Does(m, "editWrite") /\ clients' # clients =>
         LET c == doing[m].client
         IN  clients'[c].name # clients[c].name => doing[m].previous = clients[c].name]_directoryVars

\* WithdrawDialog.tsx says that a withdrawn client cannot be used in new matters.
NoNewMatterOfWithdrawn ==
  [][\A m \in Person :
       Does(m, "matterWrite") /\ ~Does(m, "matterWrite")'
         => clients[doing[m].client].status = "active"]_directoryVars

\* ClientFormDialog.tsx says that the directory updates to what the server holds.
SavesAreShown ==
  \A m \in Reader : screen[m].owed => screen[m].fetch.kind = "all"
=============================================================================
