-------------------------------- MODULE Feed --------------------------------
(***************************************************************************)
(* Navigation and the feed of the web application: the hash of the URL and   *)
(* what follows it (router.ts, App.tsx, the channel of pages/Feed.tsx), and   *)
(* the posts that the feed loads page by page from an indexer whose ranking   *)
(* moves on meanwhile (pages/Feed.tsx, api/indexerApi.ts).                   *)
(*                                                                         *)
(* The browser tells of a changed hash later, by an event; a channel that is *)
(* chosen in the feed changes the state first and then the URL, without an   *)
(* event.  Pages are fetched by react-query, which is external: it keeps a    *)
(* list of pages for every query key, loads them one after the other and      *)
(* replaces the list when it has all of them.                                *)
(***************************************************************************)
EXTENDS Naturals, Sequences, SequencesExt, FiniteSets, Lists

CONSTANTS
    None,           \* no channel: all posts
    Channel,
    Post,
    ChannelOf,      \* the channel of a post
    PAGE_SIZE,
    MaxMoves,       \* bound: what the user does
    MaxChanges,     \* bound: changes of the ranking, and of pending transactions
    MaxFailures     \* bound: requests that fail

ASSUME FeedAssumption ==
    /\ IsFiniteSet(Post) /\ None \notin Channel /\ ChannelOf \in [Post -> Channel \cup {None}]
    /\ PAGE_SIZE \in Nat \ {0} /\ MaxMoves \in Nat /\ MaxChanges \in Nat
    /\ MaxFailures \in Nat

Opt(S) == S \cup {None}

Strategy == {"trending", "new"}   \* top and controversial are read like new
Key == Strategy \X Opt(Channel)

VARIABLES
    history, at,        \* the browser: entries of the session, the current one
    events,             \* hashchange events that wait
    page,               \* useRoute
    channel, strategy,  \* Feed
    pages,              \* react-query: the pages of every key
    fetch,              \* react-query: the request of every key
    ranking,            \* the indexer: posts by strategy
    moves, changes, failures

url == <<history, at, events>>
view == <<page, channel, strategy>>
query == <<pages, fetch>>
vars == <<url, view, query, ranking, moves, changes, failures>>

-----------------------------------------------------------------------------
(* router.ts *)

Hash(path, c) == [path |-> path, channel |-> c]
Home == Hash("", None)

Paths == {"post", "channels", "rewards", "profile"}

PageOf(h) == IF h.path \in Paths THEN h.path ELSE "feed"

TopBarLinks == {Home, Hash("channels", None), Hash("rewards", None)}

\* A post leads to its page and to that of its author.
PostCardLinks == {Hash("post", None), Hash("profile", None)}

-----------------------------------------------------------------------------
(* The indexer: trending knows only recent posts, but counts all.            *)

InChannel(c) == {p \in Post : c = None \/ ChannelOf[p] = c}

Ranked(s, c) == Filter(ranking[s], InChannel(c))

Total(c) == Len(Ranked("new", c))

\* Mistake: one post too many on a page.
GetFeedOverlapping(s, c, n) ==
    [posts |-> SubSeq(Ranked(s, c), (n - 1) * PAGE_SIZE + 1,
                      IF n * PAGE_SIZE < Len(Ranked(s, c)) THEN n * PAGE_SIZE + 1
                      ELSE Len(Ranked(s, c))),
     total |-> Total(c)]

\* handleFeed
GetFeed(s, c, n) ==
    [posts |-> SubSeq(Ranked(s, c), (n - 1) * PAGE_SIZE + 1,
                      IF n * PAGE_SIZE < Len(Ranked(s, c)) THEN n * PAGE_SIZE
                      ELSE Len(Ranked(s, c))),
     total |-> Total(c)]

\* The channels that have posts, the one without a name among them
Channels == {ChannelOf[p] : p \in ToSet(ranking["new"])}

\* What ChannelSearch lets the user choose once there are channels: all posts, one
\* of the first five, the selected one again, or any other by typing its name,
\* which comes first among the results of its search.
Offered == IF Channels = {} THEN {} ELSE Opt(Channels)

Links ==
    TopBarLinks \cup
    CASE page = "channels" -> {Hash("", c) : c \in Channels}
      [] page = "rewards"  -> {Hash("post", None)}
      [] OTHER             -> PostCardLinks

-----------------------------------------------------------------------------
(* The query of Feed *)

\* Mistake: the channel is missing from the key.
QueryKeyOfAll(s, c) == <<s, None>>

QueryKey(s, c) == <<s, c>>

CurrentKey == QueryKey(strategy, channel)

\* getNextPageParam; 0 for undefined
NextPageParam(ps) ==
    IF Len(ps) * PAGE_SIZE < Last(ps).total THEN Len(ps) + 1 ELSE 0

HasNextPage(ps) == ps # << >> /\ NextPageParam(ps) # 0

\* A request of react-query: what it has, how many pages it will have, whether
\* it adds a page, and the strategy and channel it asks for
Idle == [got |-> << >>, want |-> 0, next |-> FALSE, of |-> <<"new", None>>]

Refetch(k) ==
    [got |-> << >>, want |-> IF pages[k] = << >> THEN 1 ELSE Len(pages[k]),
     next |-> FALSE, of |-> <<strategy, channel>>]

NextPage(k) == [got |-> pages[k], want |-> Len(pages[k]) + 1, next |-> TRUE,
                of |-> <<strategy, channel>>]

TypeOK ==
    /\ at \in DOMAIN history
    /\ \A i \in DOMAIN history : history[i] \in
         [path : Paths \cup {""}, channel : Opt(Channel)]
    /\ events \in Nat
    /\ page \in Paths \cup {"feed"}
    /\ channel \in Opt(Channel) /\ strategy \in Strategy
    /\ \A k \in Key :
         /\ \A i \in DOMAIN pages[k] :
              pages[k][i].posts \in Seq(Post) /\ Len(pages[k][i].posts) <= PAGE_SIZE
         /\ Len(fetch[k].got) <= fetch[k].want
    /\ ranking \in [Strategy -> Seq(Post)]
    /\ moves \in 0..MaxMoves /\ changes \in 0..MaxChanges /\ failures \in 0..MaxFailures

Orders(S) == {s \in [1..Cardinality(S) -> S] : \A i, j \in DOMAIN s : s[i] = s[j] => i = j}

Init ==
    /\ history = <<Home>> /\ at = 1 /\ events = 0
    /\ page = "feed" /\ channel = None /\ strategy = "trending"
    /\ pages = [k \in Key |-> << >>] /\ fetch = [k \in Key |-> Idle]
    /\ \E S \in SUBSET Post : \E R \in SUBSET S, o \in Orders(S) :
         ranking = [s \in Strategy |-> IF s = "new" THEN o
                                       ELSE Filter(o, R)]
    /\ moves = 0 /\ changes = 0 /\ failures = 0

-----------------------------------------------------------------------------
(* The user *)

Move == moves < MaxMoves /\ moves' = moves + 1

\* A link: nothing happens when the hash stays the same.
Navigate(h) ==
    /\ Move
    /\ h \in Links /\ h # history[at]
    /\ history' = Append(SubSeq(history, 1, at), h) /\ at' = at + 1
    /\ events' = events + 1
    /\ UNCHANGED <<view, query, ranking, changes, failures>>

Back ==
    /\ Move
    /\ at > 1
    /\ at' = at - 1
    /\ events' = IF history[at - 1] # history[at] THEN events + 1 ELSE events
    /\ UNCHANGED <<history, view, query, ranking, changes, failures>>

\* setChannel, from a pill or a result of ChannelSearch: replaceState
SelectChannel(c) ==
    /\ Move
    /\ page = "feed" /\ c \in Offered
    /\ channel' = c
    /\ history' = [history EXCEPT ![at] = Hash("", c)]
    /\ UNCHANGED <<at, events, page, strategy, query, ranking, changes, failures>>

SetStrategy(s) ==
    /\ Move
    /\ page = "feed" /\ s # strategy
    /\ strategy' = s
    /\ UNCHANGED <<url, page, channel, query, ranking, changes, failures>>

Reload ==
    /\ Move
    /\ events' = 0
    /\ page' = PageOf(history[at])
    /\ channel' = history[at].channel /\ strategy' = "trending"
    /\ pages' = [k \in Key |-> << >>] /\ fetch' = [k \in Key |-> Idle]
    /\ UNCHANGED <<history, at, ranking, changes, failures>>

\* Mistake: the feed reads the hash only when it appears.
ChannelAfterEventOnMount ==
    IF page = "feed" THEN channel ELSE history[at].channel

\* Feed reads the hash when it appears and when it hears the event.
ChannelAfterEvent == history[at].channel

\* The handlers of useRoute and, if it is shown, of Feed.  A feed that appears
\* starts with its defaults.
HashChange ==
    /\ events > 0
    /\ events' = events - 1
    /\ page' = PageOf(history[at])
    /\ channel' = IF page' = "feed" THEN ChannelAfterEvent ELSE channel
    /\ strategy' = IF page = "feed" /\ page' = "feed" THEN strategy ELSE "trending"
    /\ UNCHANGED <<history, at, query, ranking, moves, changes, failures>>

-----------------------------------------------------------------------------
(* Fetching *)

\* Mistake: no refetch interval.
TimerRefetchOnce == page = "feed" /\ pages[CurrentKey] = << >>

TimerRefetch == page = "feed"

\* The key is new or its data are old.
StartRefetch ==
    /\ TimerRefetch
    /\ fetch[CurrentKey] = Idle
    /\ fetch' = [fetch EXCEPT ![CurrentKey] = Refetch(CurrentKey)]
    /\ UNCHANGED <<url, view, pages, ranking, moves, changes, failures>>

\* invalidateQueries of PendingContext: a request under way starts again.
Invalidate ==
    /\ page = "feed" /\ changes < MaxChanges
    /\ changes' = changes + 1
    /\ fetch' = [fetch EXCEPT ![CurrentKey] = Refetch(CurrentKey)]
    /\ UNCHANGED <<url, view, pages, ranking, moves, failures>>

\* The end of the list is in sight; a refetch under way is dropped.
FetchNextPage ==
    /\ page = "feed"
    /\ HasNextPage(pages[CurrentKey]) /\ ~ fetch[CurrentKey].next
    /\ fetch' = [fetch EXCEPT ![CurrentKey] = NextPage(CurrentKey)]
    /\ UNCHANGED <<url, view, pages, ranking, moves, changes, failures>>

Answer(k) ==
    /\ fetch[k] # Idle
    /\ LET f   == fetch[k]
           n   == IF f.got = << >> THEN 1 ELSE NextPageParam(f.got)
           got == Append(f.got, GetFeed(f.of[1], f.of[2], n))
       IN  IF Len(got) = f.want \/ NextPageParam(got) = 0
             THEN /\ pages' = [pages EXCEPT ![k] = got]
                  /\ fetch' = [fetch EXCEPT ![k] = Idle]
             ELSE /\ fetch' = [fetch EXCEPT ![k].got = got]
                  /\ UNCHANGED pages
    /\ UNCHANGED <<url, view, ranking, moves, changes, failures>>

FetchFails(k) ==
    /\ fetch[k] # Idle
    /\ failures < MaxFailures /\ failures' = failures + 1
    /\ fetch' = [fetch EXCEPT ![k] = Idle]
    /\ UNCHANGED <<url, view, pages, ranking, moves, changes>>

-----------------------------------------------------------------------------
(* The ranking *)

Change(new) ==
    /\ changes < MaxChanges /\ changes' = changes + 1
    /\ ranking' = new
    /\ UNCHANGED <<url, view, query, moves, failures>>

Publish(p) ==
    /\ p \notin ToSet(ranking["new"])
    /\ Change([s \in Strategy |-> <<p>> \o ranking[s]])

\* Stakes and time move a post of the trending list to another place ...
Reorder(p, i) ==
    /\ p \in ToSet(ranking["trending"])
    /\ Change([ranking EXCEPT !["trending"] = InsertAt(Filter(@, Post \ {p}), i, p)])

\* ... or, after 72 hours, out of it.
Expire(p) ==
    /\ p \in ToSet(ranking["trending"])
    /\ Change([ranking EXCEPT !["trending"] = Filter(@, Post \ {p})])

-----------------------------------------------------------------------------
User ==
    \/ \E h \in Links : Navigate(h)
    \/ Back
    \/ \E c \in Opt(Channel) : SelectChannel(c)
    \/ \E s \in Strategy : SetStrategy(s)
    \/ Reload

Next ==
    \/ User
    \/ HashChange
    \/ StartRefetch
    \/ Invalidate
    \/ FetchNextPage
    \/ \E k \in Key : Answer(k)
    \/ \E k \in Key : FetchFails(k)
    \/ \E p \in Post : Publish(p)
    \/ \E p \in Post, i \in 1..Len(ranking["trending"]) : Reorder(p, i)
    \/ \E p \in Post : Expire(p)

Spec == Init /\ [][Next]_vars

\* The browser delivers its events, the refetch interval of App.tsx fires, and a
\* request that does not fail is answered.
Fairness ==
    /\ WF_vars(HashChange)
    /\ WF_vars(StartRefetch)
    /\ WF_vars(\E k \in Key : Answer(k))

FairSpec == Spec /\ Fairness

-----------------------------------------------------------------------------
Shown(ps) == FlattenSeq([i \in DOMAIN ps |-> ps[i].posts])

\* The pages are the best posts of the selection, none of them twice and none
\* left out, and all of them if there is no next page.
Fits(ps, s, c) ==
    /\ IsPrefix(Shown(ps), Ranked(s, c))
    /\ Len(ps) * PAGE_SIZE < Len(Ranked(s, c)) => Len(Shown(ps)) = Len(ps) * PAGE_SIZE
    /\ ~ HasNextPage(ps) => Shown(ps) = Ranked(s, c)

\* Once the browser has told of every change, the page and the channel filter
\* are those of the URL, whatever was clicked while an event was on its way
\* (Feed: the state of setChannel and the handler of hashchange).
UrlShowsPage ==
    events = 0 => /\ page = PageOf(history[at])
                  /\ page = "feed" => channel = history[at].channel

\* As long as the ranking rests, what the feed has loaded for its selection is
\* the beginning of the ranking, through every order of answers, switches of
\* strategy and channel, and trending's counting of posts it does not list
\* (Feed: queryKey and getNextPageParam).
FeedIsPrefix ==
    changes = 0 /\ page = "feed" /\ pages[CurrentKey] # << >> =>
       Fits(pages[CurrentKey], strategy, channel)

\* A ranking that moves while pages are loaded shows posts twice or not at all,
\* but not for ever: the feed comes to show the ranking as it is (App: refetchInterval).
FeedCatchesUp ==
    <>[](page = "feed" => /\ pages[CurrentKey] # << >>
                          /\ Fits(pages[CurrentKey], strategy, channel))
=============================================================================
