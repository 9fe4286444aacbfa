----------------------------- MODULE MCRiskLedger -----------------------------
EXTENDS RiskLedger

\* Asia/Shanghai and UTC.
OneZone  == {"shanghai"}
TwoZones == {"shanghai", "utc"}
HoursAhead == [zone \in Zones |-> IF zone = "shanghai" THEN 8 ELSE 0]

\* Two instants of one trading day in Shanghai and one of the next; in UTC the
\* day changes only after the last one.
Instants == {2, 10, 18}

LimitValues == {1, 2}
=============================================================================
