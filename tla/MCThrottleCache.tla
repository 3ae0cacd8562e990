-------------------------- MODULE MCThrottleCache --------------------------
EXTENDS ThrottleCache, TLC

\* Either two endpoints with different rates share the resend timer, or there
\* is one link on which two ids are throttled and cached.
TheLists == {{"uart", "tcp"}, {"link"}}

TheAllowed == "uart" :> {1} @@ "tcp" :> {1} @@ "link" :> {1, 2}

TheCacheable == TheAllowed

TheRates == "uart" :> <<1, 0>> @@ "tcp" :> <<3, 0>> @@ "link" :> <<3, 2>>

TheNewRates == "uart" :> {0} @@ "tcp" :> {0} @@ "link" :> {}

TheMaxMsgs == "uart" :> 2 @@ "tcp" :> 2 @@ "link" :> 4
=============================================================================
