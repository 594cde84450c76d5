-------------------------- MODULE MCObjectBrowser --------------------------
EXTENDS ObjectBrowser

\* An object at the top of a bucket and one in a folder.
SomeObjects == {<<"a">>, <<"d", "x">>}
\* A folder of the second bucket.
SomePaths == {<<2, "d">>}
\* As the dialog begins, and more than a week.
SomeTimes == {<<5, 0, 0>>, <<7, 23, 59>>}
\* The name of bucket 1 is a part of that of bucket 2.
SomeWithin == {<<2, 1>>}
\* One location has more than two pages.
SomeMiners == [l \in Locations |-> IF l = "Asia" THEN 5 ELSE 1]
=============================================================================
