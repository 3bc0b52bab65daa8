SPECIFICATION Spec
PROPERTY
    NoCloseWithObstacle
