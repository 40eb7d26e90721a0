---------------------------- MODULE MCApiServices ----------------------------
(* Three requests over one user who has signed up, an admin, a channel with a podcast and
   an episode; two searches; two uploads; three connections of one session;
   calls about notifications of two users.  *)
EXTENDS ApiServices, TLC

CONSTANTS q1, q2, q3, r1, r2, r3, r4, r5, r6, r7, r8, r9, u1, u2, u3, u4, u5, e1, e2, s1, s2,
          url1, url2, slug1, v1, v2, v3, x1, x2, w1, w2, t1, k1, k2, k3, n1, n2

MCUsers == [u \in Users |->
    CASE u = u1 -> [email |-> e1, secret |-> s1, token |-> None]
      [] u = u2 -> [email |-> e2, secret |-> None, token |-> None]
      [] OTHER -> None]

MCProfiles == [u \in Users |-> IF u = u1 THEN 1 ELSE 0]

MCRows == [r \in Rows |->
    CASE r = r1 -> [table |-> "channel", owner |-> u1, parent |-> None, key |-> slug1]
      [] r = r2 -> [table |-> "podcast", owner |-> None, parent |-> r1, key |-> url1]
      [] r = r3 -> [table |-> "episode", owner |-> None, parent |-> r2, key |-> slug1]
      [] OTHER -> None]

MCIndex ==
    <<[title |-> "one", type |-> "podcast", category |-> "news", channel |-> "c", words |-> {"a"}],
      [title |-> "two", type |-> "episode", category |-> None, channel |-> "c", words |-> {"a", "b"}],
      [title |-> "three", type |-> "category", category |-> "news", channel |-> None, words |-> {"b"}]>>

MCSynonyms == {<<"a", "b">>}

MCDemands ==
    LET of(query, type, category) == [query |-> query, filters |->
            [type |-> type, category |-> category, channel |-> None]]
    IN  {of("", None, "news"), of("a", None, None), of("a", "episode", "news"),
         of("b", None, "news"), of("b", None, None)}

MCNoticeDemands ==
    LET ask(channels, preferences, waits, dated, max) ==
            [channels |-> channels, preferences |-> preferences, waits |-> waits,
             dated |-> dated, max |-> max, named |-> ~waits]
    IN  {ask(<<>>, None, FALSE, FALSE, 1), ask(<<"webpush", "email">>, None, FALSE, FALSE, 1),
         ask(<<"email", "sms">>, None, TRUE, FALSE, 1),
         ask(<<"web_push", "push">>, {"push"}, TRUE, TRUE, 0)}

MCWishes == {{"in-app"}, {"email", "web-push"}}

Symmetry == Permutations(Requests)
=============================================================================
