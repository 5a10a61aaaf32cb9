SPECIFICATION FairSpec
INVARIANTS
    AnsweredOnce
    NotFoundIsTrue
PROPERTIES
    RequestsAreAnswered
