------------------------------ MODULE MCAmazonSync ------------------------------
(* A small instance of AmazonSync for TLC.                                       *)
EXTENDS AmazonSync

CONSTANTS s1, s2, s3, c1, k1, x1, x2, a1, a2, t1, t2

\* Two product syncs and a refresh of the marketplaces.
MCPlans == {plan \in [Syncs -> {"product_sync", "marketplace_refresh"}] :
              Cardinality({s \in Syncs : plan[s] = "marketplace_refresh"}) = 1}

\* Every kind of reply that is an error, and one that is not.
Fine == Reply("answered", 200, "json")

Poor == {Reply("failed", 0, "none"), Reply("oversized", 0, "none")}
        \cup {Reply("answered", status, "none") : status \in {302, 400, 401, 403, 429, 500}}
        \cup {Reply("answered", 200, form) : form \in {"none", "undecodable"}}

MCItem(sku, asin) == [sku |-> sku, asin |-> asin, summaries |-> 1]

\* The SKU followed with either ASIN, or two others of the seller.
MCItems == {<<>>, <<MCItem(k1, a1)>>, <<MCItem(k1, a2)>>, <<MCItem(x1, a1)>>,
            <<MCItem(x1, a1), MCItem(x2, a1)>>, <<MCItem(k1, a1), MCItem(k1, a2)>>,
            <<[MCItem(k1, a1) EXCEPT !.summaries = 2]>>}

MCPage(reply, items, next) == [reply |-> reply, items |-> items, next |-> next]

MCRounds ==
    {[token |-> Cached, page |-> MCPage(Fine, items, next)] : items \in MCItems, next \in {{}, {t1}, {t2}}}
    \cup {[token |-> Cached, page |-> MCPage(reply, <<>>, {})] : reply \in Poor}
    \cup {[token |-> reply, page |-> MCPage(Fine, <<MCItem(k1, a1)>>, {})] : reply \in Poor \cup {Fine}}

\* One page, or two.
MCReadings == {<<r>> : r \in MCRounds} \cup {<<r, q>> : r \in MCRounds, q \in MCRounds}

MCFlags == [participating : BOOLEAN, suspended : BOOLEAN]

MCMarketReplies ==
    {[token |-> Fine, reply |-> Fine, flags |-> flags] :
        flags \in {<<>>} \cup {<<f>> : f \in MCFlags} \cup {<<f, f>> : f \in MCFlags}}
    \cup {[token |-> Fine, reply |-> reply, flags |-> <<>>] : reply \in Poor}
    \cup {[token |-> reply, reply |-> Fine, flags |-> <<>>] : reply \in Poor}

MCCatalogReplies ==
    {[token |-> Fine, reply |-> reply, asin |-> a, summaries |-> 1] : reply \in {Fine} \cup Poor, a \in Asins}

MCSymmetry == Permutations(Syncs)
=================================================================================
