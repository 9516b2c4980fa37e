---------------------------- MODULE AmazonResponses ----------------------------
(***************************************************************************)
(* What Amazon may answer and what the integration makes of it             *)
(* (integrations/amazon/transport.py, lwa.py, client.py, listings_items.py, *)
(* sellers.py, catalog_items.py): the error an exchange raises, the pages   *)
(* of a listing collected into one, and the status an error gives the       *)
(* account.  A reading of Amazon touches nothing of ours, so it is a value. *)
(***************************************************************************)
EXTENDS Naturals, Sequences, FiniteSets, SequencesExt

CONSTANTS
    MaxPages, MaxItems,  \* of one sync (MAX_SYNC_PAGES, MAX_SYNC_ITEMS)
    Readings,            \* what Amazon may answer to a sync: sequences of rounds
    MarketReplies,       \* ... to a refresh of the marketplaces
    CatalogReplies       \* ... to a catalog lookup

\* A reading is a sequence of rounds, and a page one of items.
ASSUME ResponseAssumption ==
    /\ MaxPages \in Nat /\ MaxItems \in Nat
    /\ \A reading \in Readings :
          /\ reading \in Seq(ToSet(reading))
          /\ \A round \in ToSet(reading) : round.page.items \in Seq(ToSet(round.page.items))

---------------------------------------------------------------------------
(* Replies and their errors                                                 *)

\* A reply is answered, fails on the way (a timeout, a broken connection) or is
\* oversized; form says whether a body is JSON, is none, or no text at all.
Reply(end, status, form) == [end |-> end, status |-> status, form |-> form]

Arrived(reply) == reply.end = "answered"

\* The access token is the cached one.
Cached == Reply("cached", 200, "json")

\* Reading the error of a reply that never came.
TransportError(reply, unreachable) ==
    IF reply.end = "oversized" THEN "response_too_large" ELSE unreachable

\* lwa_error_from_status
LwaStatusError(status) ==
    CASE status = 429 -> "lwa_rate_limited"
      [] status >= 500 -> "lwa_unavailable"
      [] OTHER -> "lwa_token_invalid"

\* The exchange of the refresh token, if one is needed; "" when it yields a token.
LwaError(reply) ==
    IF reply = Cached THEN ""
    ELSE IF ~Arrived(reply) THEN TransportError(reply, "lwa_unavailable")
    ELSE IF reply.status # 200 THEN LwaStatusError(reply.status)
    ELSE IF reply.form # "json" THEN "response_invalid"
    ELSE ""

\* sp_api_error_from_status
SpApiStatusError(status) ==
    CASE status = 401 -> "sp_api_unauthorized"
      [] status = 403 -> "sp_api_forbidden"
      [] status = 429 -> "sp_api_rate_limited"
      [] status >= 500 -> "sp_api_server_error"
      [] OTHER -> "sp_api_client_error"

\* SpApiClient.request.  A body that is no text escapes as an exception of no kind,
\* and a redirection is not followed: it has no payload to map.
SpApiError(reply) ==
    IF ~Arrived(reply) THEN TransportError(reply, "sp_api_transport_error")
    ELSE IF reply.status >= 400 THEN SpApiStatusError(reply.status)
    ELSE IF reply.form = "undecodable" THEN "unexpected"
    ELSE IF reply.form = "none" THEN "response_invalid"
    ELSE ""

\* The first error of three outcomes.
FirstError(token, reply, content) ==
    IF token # "" THEN token ELSE IF reply # "" THEN reply ELSE content

---------------------------------------------------------------------------
(* The pages of a product sync                                              *)

\* A page is a reply with items and at most one next token.  An item names its
\* SKU, its ASIN if any, and how many summaries it has for the marketplace.
Mappable(item) == item.summaries = 1

\* No SKU twice.
Distinct(items) == \A i, j \in DOMAIN items : items[i].sku = items[j].sku => i = j

\* map_search_listings_items_page
PageError(page) ==
    IF (\A i \in DOMAIN page.items : Mappable(page.items[i])) /\ Distinct(page.items)
    THEN "" ELSE "response_invalid"

NothingRead == [end |-> "more", items |-> <<>>, pages |-> 0, tokens |-> {}]

Gathered(got, page) == got.items \o page.items

\* How the loop goes on after a page: an item seen before, too many items, the
\* last page, a token seen before, too many pages.  Of the first two either may
\* come first; they are the same to the account.
After(got, page) ==
    IF ~Distinct(Gathered(got, page)) THEN "response_invalid"
    ELSE IF Len(Gathered(got, page)) > MaxItems THEN "pagination_limit"
    ELSE IF page.next = {} THEN "done"
    ELSE IF page.next \subseteq got.tokens THEN "pagination_loop"
    ELSE IF got.pages + 1 >= MaxPages \/ Len(Gathered(got, page)) >= MaxItems
         THEN "pagination_limit"
    ELSE "more"

\* One round of _fetch_all_listings: a token, then a page.  An error leaves nothing
\* of the pages before.
ReadRound(got, round) ==
    LET failure == FirstError(LwaError(round.token), SpApiError(round.page.reply),
                              PageError(round.page))
    IN  IF got.end # "more" THEN got
        ELSE IF failure # "" THEN [NothingRead EXCEPT !.end = failure]
        ELSE [end |-> After(got, round.page), items |-> Gathered(got, round.page),
              pages |-> got.pages + 1, tokens |-> got.tokens \cup round.page.next]

\* What has been read after each round, from none to all.
Progress(reading) ==
    LET got[n \in 0..Len(reading)] ==
            IF n = 0 THEN NothingRead ELSE ReadRound(got[n - 1], reading[n])
    IN  got

ReadListings(reading) == Progress(reading)[Len(reading)]

\* The readings that end with their last round, in items or in an error.
Readable ==
    {reading \in Readings : /\ ReadListings(reading).end # "more"
                            /\ Progress(reading)[Len(reading) - 1].end = "more"}

\* The items listed on the pages of a reading.
Listed(reading) == UNION {ToSet(reading[r].page.items) : r \in DOMAIN reading}

---------------------------------------------------------------------------
(* Marketplaces and catalog items                                           *)

\* The reply lists the participations in the marketplace: none, one, or too many.
ParticipationError(reply) ==
    FirstError(LwaError(reply.token), SpApiError(reply.reply),
               IF Len(reply.flags) > 1 THEN "response_invalid" ELSE "")

\* SellerMarketplaceParticipation.sync_eligible
SyncEligible(flags) == flags.participating /\ ~flags.suspended

Participation(reply) ==
    IF reply.flags = <<>> THEN "none"
    ELSE IF SyncEligible(reply.flags[1]) THEN "eligible"
    ELSE "ineligible"

\* _map_catalog_item: the item asked for, with one summary for the marketplace.
CatalogError(reply, asin) ==
    FirstError(LwaError(reply.token), SpApiError(reply.reply),
               IF reply.asin = asin /\ reply.summaries = 1 THEN "" ELSE "response_invalid")

---------------------------------------------------------------------------
(* What an error says of the account                                        *)

ReauthorizationErrors == {"lwa_token_invalid", "sp_api_unauthorized", "sp_api_forbidden"}

\* _account_status_for_error of a product sync leaves the account as it is ("")
\* unless its token is refused; what is no error of Amazon is one of the account.
ProductVerdict(error) ==
    CASE error \in ReauthorizationErrors -> "reauthorization_required"
      [] error = "unexpected" -> "error"
      [] OTHER -> ""

\* A refresh that fails always says something.
RefreshVerdict(error) ==
    IF error \in ReauthorizationErrors THEN "reauthorization_required" ELSE "error"
=================================================================================
