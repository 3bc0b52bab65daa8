SPECIFICATION FairSpec
PROPERTY
    FireOpensDoor
