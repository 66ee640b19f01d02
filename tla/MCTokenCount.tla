---------------------------- MODULE MCTokenCount ---------------------------
(***************************************************************************)
(* The test directory and the call of src/docs/conf.py for TokenCount:     *)
(* two test sources and a header, the three tokens conf.py counts, and     *)
(* texts in which they occur alone, together, repeated and misspelt.       *)
(***************************************************************************)
EXTENDS TokenCount

Chars(s) == [i \in 1..Len(s) |-> SubSeq(s, i, i)]

TestFTok == Chars("TEST_F ")
ExpectTok == Chars("EXPECT_")
AssertTok == Chars("ASSERT_")

ConfTokens == <<TestFTok, ExpectTok, AssertTok>>
ConfPatterns == <<Chars("*.cpp")>>

TestFiles == {Chars("a.cpp"), Chars("b.cpp"), Chars("c.h")}

TestTexts ==
  { <<>>,
    TestFTok \o Chars("(X,t){") \o ExpectTok \o Chars("EQ;") \o AssertTok,
    Chars("TEST_F(X,u){") \o ExpectTok \o ExpectTok,
    TestFTok \o TestFTok \o Chars("ASSERT") }

=============================================================================
